---- MODULE Spec2Model ----
(***************************************************************************)
(* A model of the serverless endpoints of promptmenu-ai:                   *)
(*   analyze-document   (receipt analysis:  upload, analyse, extract,      *)
(*                        classify, build record, insert, respond)         *)
(*   analyze-menu-image (menu analysis:     upload, vision, advice,        *)
(*                        build record, insert, respond)                   *)
(*                                                                         *)
(* Text is a sequence of one-character strings; a character outside ASCII  *)
(* is written as its code point ("U+00C9").  A Python dict is a function   *)
(* whose DOMAIN is its key set; the empty dict is the empty function.      *)
(***************************************************************************)
EXTENDS Integers, Sequences, FiniteSets, TLC

VARIABLES
    now,        \* the UTC wall clock read by datetime.utcnow(): seconds of ClockDate
    env,        \* os.environ: the settings of the function app
    blobs,      \* the blob container: blob name -> uploaded content
    containers, \* the blob containers that exist
    store,      \* the documents inserted into the collection, in insert order
    ops,        \* history: every operation issued on the collection
    conversations, \* the Direct Line service: conversation id -> its activities, in order
    req,        \* per invocation: the HTTP request
    pc,         \* per invocation: where the handler is
    loc,        \* per invocation: the handler's local variables, and `steps`, the
                \* calls to the blob and analysis services that have returned
    resp        \* per invocation: the HTTP response

vars == <<now, env, blobs, containers, store, ops, conversations, req, pc, loc, resp>>

----------------------------------------------------------------------------
(* Text *)

UpperLetters == <<"A","B","C","D","E","F","G","H","I","J","K","L","M",
                  "N","O","P","Q","R","S","T","U","V","W","X","Y","Z">>
LowerLetters == <<"a","b","c","d","e","f","g","h","i","j","k","l","m",
                  "n","o","p","q","r","s","t","u","v","w","x","y","z">>
Digits == <<"0","1","2","3","4","5","6","7","8","9">>

Range(s) == {s[i] : i \in DOMAIN s}

IndexOf(c, s) == CHOOSE i \in DOMAIN s : s[i] = c

\* Letters and digits outside ASCII for which str.isalnum() holds:
\* U+00C9 (E acute), U+00E9 (e acute), U+0130 (I with dot above).
UnicodeAlnum == {"U+00C9", "U+00E9", "U+0130"}

\* Whitespace outside ASCII: U+00A0 (no-break space).
UnicodeSpace == {"U+00A0"}

\* re's \w on a str pattern: Unicode alphanumerics and the underscore.
\* U+0307 (combining dot above) is a mark: neither \w nor \s.
IsWordChar(c) ==
    c \in Range(UpperLetters) \cup Range(LowerLetters) \cup Range(Digits)
          \cup {"_"} \cup UnicodeAlnum

\* re's \s on a str pattern.
IsSpaceChar(c) == c \in {" ", "\t", "\n"} \cup UnicodeSpace

\* str.lower() of one character (the result may be longer than one character).
LowerChar(c) ==
    IF c \in Range(UpperLetters) THEN <<LowerLetters[IndexOf(c, UpperLetters)]>>
    ELSE IF c = "U+00C9" THEN <<"U+00E9">>
    ELSE IF c = "U+0130" THEN <<"i", "U+0307">>
    ELSE <<c>>

RECURSIVE Lower(_)
Lower(s) == IF s = <<>> THEN <<>> ELSE LowerChar(Head(s)) \o Lower(Tail(s))

\* s[i..] starts with p
StartsAt(s, i, p) ==
    /\ i + Len(p) - 1 <= Len(s)
    /\ \A k \in 1..Len(p) : s[i + k - 1] = p[k]

\* Python's `p in s` for strings
Contains(s, p) == \E i \in 1..(Len(s) + 1) : StartsAt(s, i, p)

\* re.sub(r'[^\w\s]', '_', s)
SubNonWord(s) == [i \in DOMAIN s |-> IF IsWordChar(s[i]) \/ IsSpaceChar(s[i]) THEN s[i] ELSE "_"]

\* re.sub(r'\s+', '_', s): every maximal run of whitespace becomes one underscore
RECURSIVE SubSpaceRuns(_)
SubSpaceRuns(s) ==
    IF s = <<>> THEN <<>>
    ELSE IF IsSpaceChar(Head(s))
         THEN IF Len(s) > 1 /\ IsSpaceChar(s[2])
              THEN SubSpaceRuns(Tail(s))
              ELSE <<"_">> \o SubSpaceRuns(Tail(s))
         ELSE <<Head(s)>> \o SubSpaceRuns(Tail(s))

\* A slip: the text is not lower-cased
convert_keeping_case(text) == SubSpaceRuns(SubNonWord(text))

convert_to_snake_case(text) == Lower(SubSpaceRuns(SubNonWord(text)))

----------------------------------------------------------------------------
(* Time *)

\* The date of the modelled day and its first modelled instant, 03:04:05Z.
ClockDate == [year |-> 2024, month |-> 1, day |-> 2]
StartTime == 3 * 3600 + 4 * 60 + 5

\* How many seconds the clock may advance in a behaviour.
MaxTicks == 1

Pad2(n) == <<Digits[((n \div 10) % 10) + 1], Digits[(n % 10) + 1]>>
Pad4(n) == Pad2(n \div 100) \o Pad2(n % 100)

\* timestamp.strftime('%Y%m%d%H%M%S')
strftime(t) ==
    Pad4(ClockDate.year) \o Pad2(ClockDate.month) \o Pad2(ClockDate.day)
      \o Pad2(t \div 3600) \o Pad2((t \div 60) % 60) \o Pad2(t % 60)

----------------------------------------------------------------------------
(* Python values *)

\* A value is tagged with its Python type; text and numbers carry their characters.
None == [t |-> "None", v |-> <<>>]
Str(s) == [t |-> "str", v |-> s]
Float(s) == [t |-> "float", v |-> s]
Date(y, m, d) == [t |-> "date", v |-> <<y, m, d>>]
Time(h, m, sec) == [t |-> "time", v |-> <<h, m, sec>>]
List(items) == [t |-> "list", v |-> items]

\* A name-valued attribute (doc_type, value_type) is a TLA+ string; PyNone is
\* Python's None for such an attribute.
PyNone == "<None>"
Truthy(name) == name \notin {PyNone, ""}

EmptyDict == [k \in {} |-> None]
Put(d, k, v) == [j \in DOMAIN d \cup {k} |-> IF j = k THEN v ELSE d[j]]
hasattr(o, a) == a \in DOMAIN o

\* str(x) and x.isoformat() of a date or a time
isoformat(x) ==
    IF x.t = "time" THEN Str(Pad2(x.v[1]) \o <<":">> \o Pad2(x.v[2]) \o <<":">> \o Pad2(x.v[3]))
    ELSE Str(Pad4(x.v[1]) \o <<"-">> \o Pad2(x.v[2]) \o <<"-">> \o Pad2(x.v[3]))
str(x) ==
    IF x.t \in {"date", "time"} THEN isoformat(x)
    ELSE IF x.t = "None" THEN Str(<<"N","o","n","e">>) ELSE Str(x.v)

----------------------------------------------------------------------------
(* Field extraction: main, "Extract raw documents" *)

\* The attribute of the SDK field that holds the payload of a top-level value type.
TypedAttr ==
    [string |-> "value_string", number |-> "value_number", integer |-> "value_integer",
     date |-> "value_date", time |-> "value_time", phoneNumber |-> "value_phone_number",
     selectionMark |-> "value_selection_mark", countryRegion |-> "value_country_region"]

\* The attribute the inner (array row) dispatch probes: f"value_{item_field.value_type}"
InnerAttr(value_type) == "value_" \o value_type

\* One cell of a row: {"content": ..., "value": ...}
ExtractItemField(item_field) ==
    LET cell == [content |-> IF hasattr(item_field, "content") THEN item_field.content ELSE None]
    IN  IF /\ hasattr(item_field, "value_type")
           /\ hasattr(item_field, InnerAttr(item_field.value_type))
        THEN LET value == item_field[InnerAttr(item_field.value_type)]
             IN  Put(cell, "value", IF value.t \in {"date", "time"} THEN isoformat(value) ELSE value)
        ELSE cell

\* One row of an array field: inner field name -> cell
ExtractItem(item) ==
    [n \in DOMAIN item.value_object |-> ExtractItemField(item.value_object[n])]

IsObjectItem(item) ==
    /\ hasattr(item, "value_type") /\ item.value_type = "object"
    /\ hasattr(item, "value_object")

RECURSIVE ExtractItems(_)
ExtractItems(value_array) ==
    IF value_array = <<>> THEN <<>>
    ELSE (IF IsObjectItem(Head(value_array)) THEN <<ExtractItem(Head(value_array))>> ELSE <<>>)
         \o ExtractItems(Tail(value_array))

\* field_dict of one named field
ExtractField(field) ==
    LET base == [value_type |-> IF hasattr(field, "value_type") THEN field.value_type ELSE PyNone,
                 confidence |-> IF hasattr(field, "confidence") THEN field.confidence ELSE None]
        vt == field.value_type
        typed ==
            IF ~hasattr(field, "value_type") THEN base
            ELSE IF vt \in DOMAIN TypedAttr /\ hasattr(field, TypedAttr[vt])
                 THEN Put(base, "value",
                          IF vt \in {"date", "time"} THEN str(field[TypedAttr[vt]])
                          ELSE field[TypedAttr[vt]])
            ELSE IF vt = "array" /\ hasattr(field, "value_array")
                 THEN Put(base, "items", ExtractItems(field.value_array.v))
            ELSE base
    IN  IF hasattr(field, "content") THEN Put(typed, "content", field.content) ELSE typed

\* doc_dict of one recognized document
ExtractDocument(doc) ==
    LET base == [doc_type |-> IF hasattr(doc, "doc_type") THEN doc.doc_type ELSE PyNone,
                 confidence |-> IF hasattr(doc, "confidence") THEN doc.confidence ELSE None]
    IN  IF hasattr(doc, "fields")
        THEN Put(base, "fields", [n \in DOMAIN doc.fields |-> ExtractField(doc.fields[n])])
        ELSE base

\* `for item in field.value_array` raises TypeError when the attribute is None
FieldRaises(field) ==
    /\ hasattr(field, "value_type") /\ field.value_type = "array"
    /\ hasattr(field, "value_array") /\ field.value_array = None

\* main's "Extract raw documents" raises on one of the fields of the result
ExtractionRaises(result) ==
    /\ hasattr(result, "documents")
    /\ \E k \in DOMAIN result.documents :
          /\ hasattr(result.documents[k], "fields")
          /\ \E n \in DOMAIN result.documents[k].fields :
                FieldRaises(result.documents[k].fields[n])

\* raw_documents: None (isNone) unless the result has documents
NoDocuments == [isNone |-> TRUE, docs |-> <<>>]
ExtractDocuments(result) ==
    IF hasattr(result, "documents") /\ result.documents # <<>>
    THEN [isNone |-> FALSE,
          docs |-> [i \in DOMAIN result.documents |-> ExtractDocument(result.documents[i])]]
    ELSE NoDocuments

----------------------------------------------------------------------------
(* The receipt-analysis endpoint: analyze-document *)

Invocations == {1, 2}

\* The characters of the literals the code concatenates into names and keys.
Chars ==
    [receipt |-> <<"r","e","c","e","i","p","t">>, invoice |-> <<"i","n","v","o","i","c","e">>,
     restaurant_bill |-> <<"r","e","s","t","a","u","r","a","n","t","_","b","i","l","l">>, unknown |-> <<"u","n","k","n","o","w","n">>]

RestaurantKeywords == {<<"r","e","s","t","a","u","r","a","n","t">>, <<"c","a","f","e">>, <<"b","a","r">>, <<"g","r","i","l","l">>}

UserInfoKeys == {"owner", "displayName", "fullName", "email", "userId", "restaurant"}

\* dict.get(key, default)
Get(d, k, default) == IF k \in DOMAIN d THEN d[k] ELSE default

\* os.environ.get(name): the empty text stands for a setting that is not set
Getenv(name) == Get(env, name, <<>>)

\* main: the form fields that are user info, and those that are metadata
UserInfoOf(form) == [k \in DOMAIN form \cap UserInfoKeys |-> form[k]]
MetadataOf(form) == [k \in DOMAIN form \ (UserInfoKeys \cup {"file"}) |-> form[k]]

\* main: "Check for missing required configuration", in the order it is reported
MissingConfig ==
    SelectSeq(<<"DOCUMENT_INTELLIGENCE_ENDPOINT", "DOCUMENT_INTELLIGENCE_KEY",
                "BLOB_STORAGE_CONNECTION_STRING">>,
              LAMBDA n : Getenv(n) = <<>>)

\* os.path.splitext(file_name)[1] if '.' in file_name else ''
FileExtension(file_name) ==
    LET dots == {i \in DOMAIN file_name : file_name[i] = "."}
        seps == {i \in DOMAIN file_name : file_name[i] = "/"}
        d == CHOOSE i \in dots : \A j \in dots : j <= i
        base == IF seps = {} THEN 1 ELSE (CHOOSE i \in seps : \A j \in seps : j <= i) + 1
    IN  IF dots = {} THEN <<>>
        ELSE IF d > base /\ \E j \in base..(d - 1) : file_name[j] # "."
             THEN SubSeq(file_name, d, Len(file_name))
             ELSE <<>>

\* upload_to_blob_storage: blob_name = f"receipt_{timestamp}{file_extension}"
BlobName(t, file_name) == Chars.receipt \o <<"_">> \o strftime(t) \o FileExtension(file_name)

\* text.split(sep) for a one-character separator
RECURSIVE Split(_, _)
Split(s, sep) ==
    IF \A i \in DOMAIN s : s[i] # sep THEN <<s>>
    ELSE LET k == CHOOSE i \in DOMAIN s : s[i] = sep /\ \A j \in 1..(i - 1) : s[j] # sep
         IN  <<SubSeq(s, 1, k - 1)>> \o Split(SubSeq(s, k + 1, Len(s)), sep)

\* generate_sas_url: {item.split('=', 1)[0]: item.split('=', 1)[1] for item in ... if '=' in item}
\* (a later item with the same name wins)
AccountDict(connection_string) ==
    LET items == SelectSeq(Split(connection_string, ";"), LAMBDA it : \E i \in DOMAIN it : it[i] = "=")
        eq(it) == CHOOSE i \in DOMAIN it : it[i] = "=" /\ \A j \in 1..(i - 1) : it[j] # "="
        name(it) == SubSeq(it, 1, eq(it) - 1)
        last(n) == CHOOSE i \in DOMAIN items : name(items[i]) = n /\ \A j \in DOMAIN items : name(items[j]) = n => j <= i
    IN  [n \in {name(items[i]) : i \in DOMAIN items} |->
            SubSeq(items[last(n)], eq(items[last(n)]) + 1, Len(items[last(n)]))]

AccountName(connection_string) == Get(AccountDict(connection_string), <<"A","c","c","o","u","n","t","N","a","m","e">>, <<>>)
AccountKey(connection_string) == Get(AccountDict(connection_string), <<"A","c","c","o","u","n","t","K","e","y">>, <<>>)

\* The URL of a blob, and the same URL with a read-only SAS token that expires at `expiry`.
BlobUrl(account, container, blob_name) ==
    [account |-> account, container |-> container, blob_name |-> blob_name, sas |-> FALSE, expiry |-> 0]
SasUrl(account, container, blob_name, expiry) ==
    [account |-> account, container |-> container, blob_name |-> blob_name, sas |-> TRUE, expiry |-> expiry]

\* A slip: the tip / service-charge check nested under the merchant check
ResponseReceiptTypeNested(raw_documents) ==
    IF raw_documents.isNone \/ raw_documents.docs = <<>> THEN "unknown"
    ELSE LET doc == raw_documents.docs[1]
             fields == doc.fields
             value == Get(fields["MerchantName"], "value", Str(<<>>))
             merchant == IF value.t = "str" THEN Lower(value.v) ELSE <<>>
         IN  IF doc.doc_type = "receipt"
             THEN IF /\ "fields" \in DOMAIN doc
                     /\ "MerchantName" \in DOMAIN fields
                     /\ \/ \E keyword \in RestaurantKeywords : Contains(merchant, keyword)
                        \/ "Tip" \in DOMAIN fields
                        \/ "ServiceCharge" \in DOMAIN fields
                  THEN "restaurant_bill"
                  ELSE "receipt"
             ELSE IF doc.doc_type = "invoice" THEN "invoice"
             ELSE "unknown"

\* main, "Determine receipt type for response"
ResponseReceiptType(raw_documents) ==
    IF raw_documents.isNone \/ raw_documents.docs = <<>> THEN "unknown"
    ELSE LET doc == raw_documents.docs[1]
             fields == doc.fields
             value == Get(fields["MerchantName"], "value", Str(<<>>))
             merchant == IF value.t = "str" THEN Lower(value.v) ELSE <<>>
         IN  IF doc.doc_type = "receipt"
             THEN IF /\ "fields" \in DOMAIN doc
                     /\ \/ /\ "MerchantName" \in DOMAIN fields
                           /\ \E keyword \in RestaurantKeywords : Contains(merchant, keyword)
                        \/ "Tip" \in DOMAIN fields
                        \/ "ServiceCharge" \in DOMAIN fields
                  THEN "restaurant_bill"
                  ELSE "receipt"
             ELSE IF doc.doc_type = "invoice" THEN "invoice"
             ELSE "unknown"

\* save_raw_documents_to_db, "Generate a simple document key": the receipt type
StoredReceiptType(raw_documents) ==
    IF /\ ~raw_documents.isNone /\ raw_documents.docs # <<>>
       /\ Truthy(raw_documents.docs[1].doc_type)
    THEN IF raw_documents.docs[1].doc_type = "receipt" THEN "receipt"
         ELSE IF raw_documents.docs[1].doc_type = "invoice" THEN "invoice"
         ELSE "receipt"
    ELSE "receipt"

\* A slip: fullName tried before displayName
UsernameFullNameFirst(user_info) ==
    IF DOMAIN user_info = {} THEN Chars.unknown
    ELSE convert_to_snake_case(
            IF Get(user_info, "fullName", <<>>) # <<>> THEN user_info["fullName"]
            ELSE IF Get(user_info, "displayName", <<>>) # <<>> THEN user_info["displayName"]
            ELSE IF Get(user_info, "owner", <<>>) # <<>> THEN user_info["owner"]
            ELSE Chars.unknown)

\* save_raw_documents_to_db, "Get username if available"
Username(user_info) ==
    IF DOMAIN user_info = {} THEN Chars.unknown
    ELSE convert_to_snake_case(
            IF Get(user_info, "displayName", <<>>) # <<>> THEN user_info["displayName"]
            ELSE IF Get(user_info, "fullName", <<>>) # <<>> THEN user_info["fullName"]
            ELSE IF Get(user_info, "owner", <<>>) # <<>> THEN user_info["owner"]
            ELSE Chars.unknown)

\* doc_key = f"{receipt_type}_{username}_{timestamp.strftime('%Y%m%d%H%M%S')}"
DocKey(receipt_type, user_info, t) ==
    Chars[receipt_type] \o <<"_">> \o Username(user_info) \o <<"_">> \o strftime(t)

\* timestamp.isoformat(), to the second
IsoTimestamp(t) ==
    Pad4(ClockDate.year) \o <<"-">> \o Pad2(ClockDate.month) \o <<"-">> \o Pad2(ClockDate.day)
      \o <<"T">> \o Pad2(t \div 3600) \o <<":">> \o Pad2((t \div 60) % 60) \o <<":">> \o Pad2(t % 60)

\* A slip: the second source is tried whenever the first gave no value
PromoteFallback(record, fields, key, first, second) ==
    IF first \in DOMAIN fields /\ "value" \in DOMAIN fields[first]
    THEN Put(record, key, fields[first]["value"])
    ELSE IF second \in DOMAIN fields /\ "value" \in DOMAIN fields[second]
    THEN Put(record, key, fields[second]["value"])
    ELSE record

\* save_raw_documents_to_db: one promoted scalar (merchant, total or date)
Promote(record, fields, key, first, second) ==
    IF first \in DOMAIN fields
    THEN IF "value" \in DOMAIN fields[first] THEN Put(record, key, fields[first]["value"]) ELSE record
    ELSE IF second \in DOMAIN fields
    THEN IF "value" \in DOMAIN fields[second] THEN Put(record, key, fields[second]["value"]) ELSE record
    ELSE record

\* save_raw_documents_to_db, "Extract some key information from raw documents"
Promotion(record, raw_documents) ==
    IF /\ ~raw_documents.isNone /\ raw_documents.docs # <<>>
       /\ "fields" \in DOMAIN raw_documents.docs[1]
    THEN LET fields == raw_documents.docs[1].fields
         IN  Promote(Promote(Promote(record, fields, "merchant", "MerchantName", "VendorName"),
                             fields, "total", "Total", "InvoiceTotal"),
                     fields, "date", "TransactionDate", "InvoiceDate")
    ELSE record

\* A slip: only the first document is kept
BuildRecordFirstDoc(id, t, blob_name, blob_url, sas_url, user_info, metadata, raw_documents) ==
    Promotion(
        [_id |-> id,
         document_key |-> DocKey(StoredReceiptType(raw_documents), user_info, t),
         blob_name |-> blob_name,
         blob_url |-> blob_url,
         sas_url |-> sas_url,
         upload_timestamp |-> IsoTimestamp(t),
         receipt_type |-> StoredReceiptType(raw_documents),
         user_info |-> user_info,
         metadata |-> metadata,
         raw_documents |-> IF raw_documents.docs = <<>> THEN <<>> ELSE <<raw_documents.docs[1]>>],
        raw_documents)

\* save_raw_documents_to_db: the record handed to insert_one
BuildRecord(id, t, blob_name, blob_url, sas_url, user_info, metadata, raw_documents) ==
    Promotion(
        [_id |-> id,
         document_key |-> DocKey(StoredReceiptType(raw_documents), user_info, t),
         blob_name |-> blob_name,
         blob_url |-> blob_url,
         sas_url |-> sas_url,
         upload_timestamp |-> IsoTimestamp(t),
         receipt_type |-> StoredReceiptType(raw_documents),
         user_info |-> user_info,
         metadata |-> metadata,
         raw_documents |-> raw_documents.docs],
        raw_documents)

----------------------------------------------------------------------------
(* The handler, step by step.  A step ends where the handler calls out to   *)
(* the blob service, the analysis service or the store.                     *)

\* main: container_name = os.environ.get("BLOB_CONTAINER_NAME", "receipts")
ContainerName == Get(env, "BLOB_CONTAINER_NAME", <<"r","e","c","e","i","p","t","s">>)
ConnectionString == Getenv("BLOB_STORAGE_CONNECTION_STRING")

\* The classes of the exceptions an SDK call may raise, as main's handlers see them.
SdkErrors == {"ValueError", "HttpResponseError"}

NoResponse == [status |-> 0, body |-> EmptyDict]
ErrorResponse(status, text) == [status |-> status, body |-> [error |-> Str(text)]]

\* main's two handlers: except ValueError -> 400, except Exception -> 500
Handle(exception) ==
    IF exception = "ValueError"
    THEN ErrorResponse(400, <<"Invalid request format: ", exception>>)
    ELSE ErrorResponse(500, <<"An unexpected error occurred: ", exception>>)

Finish(i, response) ==
    /\ pc' = [pc EXCEPT ![i] = "done"]
    /\ resp' = [resp EXCEPT ![i] = response]

\* A slip: the configuration is checked before the request's file
ReceiveConfigFirst(i) ==
    /\ pc[i] = "start"
    /\ IF MissingConfig # <<>>
       THEN Finish(i, ErrorResponse(500, <<"Missing required configuration: ">> \o MissingConfig))
       ELSE IF req[i].files = "none"
       THEN Finish(i, ErrorResponse(400, <<"No file uploaded. Please upload a file using multipart/form-data.">>))
       ELSE IF req[i].files # "file"
       THEN Finish(i, ErrorResponse(400, <<"No file found with the key 'file'. Please ensure your form uses 'file' as the field name.">>))
       ELSE /\ pc' = [pc EXCEPT ![i] = "container"]
            /\ UNCHANGED resp
    /\ UNCHANGED <<now, env, conversations, blobs, containers, store, ops, req, loc>>

\* main up to the call of upload_to_blob_storage: the request and the configuration
Receive(i) ==
    /\ pc[i] = "start"
    /\ IF req[i].files = "none"
       THEN Finish(i, ErrorResponse(400, <<"No file uploaded. Please upload a file using multipart/form-data.">>))
       ELSE IF req[i].files # "file"
       THEN Finish(i, ErrorResponse(400, <<"No file found with the key 'file'. Please ensure your form uses 'file' as the field name.">>))
       ELSE IF MissingConfig # <<>>
       THEN Finish(i, ErrorResponse(500, <<"Missing required configuration: ">> \o MissingConfig))
       ELSE /\ pc' = [pc EXCEPT ![i] = "container"]
            /\ UNCHANGED resp
    /\ UNCHANGED <<now, env, conversations, blobs, containers, store, ops, req, loc>>

\* upload_to_blob_storage up to container_client.exists(): the blob name is fixed
\* from the clock, the client is built from the connection string
CheckContainer(i) ==
    /\ pc[i] = "container"
    /\ \/ /\ loc' = [loc EXCEPT ![i].blob_name = BlobName(now, req[i].file_name),
                                ![i].container_exists = ContainerName \in containers]
          /\ pc' = [pc EXCEPT ![i] = "upload"]
          /\ UNCHANGED resp
       \/ \E e \in SdkErrors : Finish(i, Handle(e)) /\ UNCHANGED loc
    /\ UNCHANGED <<now, env, conversations, blobs, containers, store, ops, req>>

\* upload_to_blob_storage: create_container() when it was not seen, then
\* upload_blob(file_content, overwrite=True, metadata=metadata)
Upload(i) ==
    /\ pc[i] = "upload"
    /\ \/ /\ loc[i].container_exists \/ ContainerName \notin containers
          /\ containers' = containers \cup {ContainerName}
          /\ blobs' = Put(blobs, loc[i].blob_name,
                          [content |-> req[i].file_content, metadata |-> MetadataOf(req[i].form)])
          /\ loc' = [loc EXCEPT ![i].blob_url =
                        BlobUrl(AccountName(ConnectionString), ContainerName, loc[i].blob_name),
                                ![i].steps = Append(@, "upload")]
          /\ pc' = [pc EXCEPT ![i] = "sas"]
          /\ UNCHANGED resp
       \/ \* create_container() on a container another invocation has created meanwhile
          /\ ~loc[i].container_exists /\ ContainerName \in containers
          /\ Finish(i, Handle("HttpResponseError"))
          /\ UNCHANGED <<blobs, containers, loc>>
       \/ \* the service rejects the call
          /\ \E e \in SdkErrors : Finish(i, Handle(e))
          /\ UNCHANGED <<blobs, containers, loc>>
    /\ UNCHANGED <<now, env, conversations, store, ops, req>>

\* generate_sas_url
GenerateSas(i) ==
    /\ pc[i] = "sas"
    /\ IF AccountName(ConnectionString) = <<>> \/ AccountKey(ConnectionString) = <<>>
       THEN Finish(i, Handle("ValueError")) /\ UNCHANGED loc
       ELSE /\ loc' = [loc EXCEPT ![i].sas_url =
                          SasUrl(AccountName(ConnectionString), ContainerName,
                                 loc[i].blob_name, now + 3600),
                               ![i].steps = Append(@, "sas")]
            /\ pc' = [pc EXCEPT ![i] = "analyze"]
            /\ UNCHANGED resp
    /\ UNCHANGED <<now, env, conversations, blobs, containers, store, ops, req>>

\* analyze_document: the first model whose begin_analyze_document does not raise
AnalysisModels == <<"prebuilt-receipt", "prebuilt-invoice", "prebuilt-document", "prebuilt-layout">>

\* A slip: a failed analysis is swallowed and the handler goes on to save
AnalyzeSwallow(i) ==
    /\ pc[i] = "analyze"
    /\ \/ /\ loc[i].sas_url.blob_name \in DOMAIN blobs
          /\ loc' = [loc EXCEPT ![i].analyzed = blobs[loc[i].sas_url.blob_name].content,
                                ![i].raw_documents =
                                    ExtractDocuments(blobs[loc[i].sas_url.blob_name].content),
                                ![i].steps = Append(@, "analyze")]
       \/ UNCHANGED loc
    /\ pc' = [pc EXCEPT ![i] = "save"]
    /\ UNCHANGED <<now, env, conversations, blobs, containers, store, ops, req, resp>>

\* analyze_document(endpoint, key, sas_url), then main's "Extract raw documents",
\* which ends the request with 500 when it raises.
\* The service reads what the URL names at the time of the call.
Analyze(i) ==
    /\ pc[i] = "analyze"
    /\ \/ \E m \in DOMAIN AnalysisModels :
            /\ loc[i].sas_url.blob_name \in DOMAIN blobs
            /\ now < loc[i].sas_url.expiry
            /\ IF ExtractionRaises(blobs[loc[i].sas_url.blob_name].content)
               THEN /\ loc' = [loc EXCEPT ![i].analyzed = blobs[loc[i].sas_url.blob_name].content]
                    /\ Finish(i, Handle("TypeError"))
               ELSE /\ loc' = [loc EXCEPT ![i].analyzed = blobs[loc[i].sas_url.blob_name].content,
                                          ![i].raw_documents =
                                              ExtractDocuments(blobs[loc[i].sas_url.blob_name].content),
                                          ![i].steps = Append(@, "analyze")]
                    /\ pc' = [pc EXCEPT ![i] = "save"]
                    /\ UNCHANGED resp
       \/ \E e \in SdkErrors : Finish(i, Handle(e)) /\ UNCHANGED loc
    /\ UNCHANGED <<now, env, conversations, blobs, containers, store, ops, req>>

\* str(uuid.uuid4()): a fresh identifier per record
Uuid(i) == <<"uuid4-", Digits[i + 1]>>

\* save_raw_documents_to_db's record for invocation i at time t
RecordOf(i, t) ==
    BuildRecord(Uuid(i), t, loc[i].blob_name, loc[i].blob_url, loc[i].sas_url,
                UserInfoOf(req[i].form), MetadataOf(req[i].form), loc[i].raw_documents)

\* main's response_data
ResponseData(i, db_response) ==
    [message |-> Str(<<"Receipt processed successfully">>),
     blob_name |-> loc[i].blob_name,
     blob_url |-> loc[i].blob_url,
     document_key |-> db_response.document_key,
     document_id |-> db_response.id,
     receipt_type |-> ResponseReceiptType(loc[i].raw_documents),
     raw_document_count |-> IF loc[i].raw_documents.isNone THEN 0 ELSE Len(loc[i].raw_documents.docs)]

\* save_raw_documents_to_db when insert_one succeeds
SaveOk(i) ==
    /\ store' = Append(store, RecordOf(i, now))
    /\ ops' = Append(ops, [op |-> "insert_one", by |-> i, ok |-> TRUE])
    /\ Finish(i, [status |-> 200,
                  body |-> ResponseData(i, [id |-> Uuid(i), document_key |-> RecordOf(i, now).document_key,
                                            status |-> "saved"])])

\* A slip: the store error is swallowed and a success payload is returned
SaveFailedSwallowed(i) ==
    /\ ops' = Append(ops, [op |-> "insert_one", by |-> i, ok |-> FALSE])
    /\ Finish(i, [status |-> 200,
                  body |-> ResponseData(i, [id |-> <<"error-saving">>,
                                            document_key |-> RecordOf(i, now).document_key,
                                            status |-> "not-saved"])])
    /\ UNCHANGED store

\* save_raw_documents_to_db when the store raises: logged and re-raised to main
SaveFailed(i) ==
    /\ ops' = Append(ops, [op |-> "insert_one", by |-> i, ok |-> FALSE])
    /\ Finish(i, Handle("PyMongoError"))
    /\ UNCHANGED store

\* save_raw_documents_to_db and the rest of main
Save(i) ==
    /\ pc[i] = "save"
    /\ SaveOk(i) \/ SaveFailed(i)
    /\ UNCHANGED <<now, env, conversations, blobs, containers, req, loc>>

\* The clock advances between steps.
Tick ==
    /\ now < StartTime + MaxTicks
    /\ now' = now + 1
    /\ UNCHANGED <<env, conversations, blobs, containers, store, ops, req, pc, loc, resp>>

Next ==
    \/ \E i \in Invocations :
          \/ Receive(i)
          \/ CheckContainer(i)
          \/ Upload(i)
          \/ GenerateSas(i)
          \/ Analyze(i)
          \/ Save(i)
    \/ Tick

----------------------------------------------------------------------------
(* Inputs: settings, analysis results (the SDK's objects) and requests *)

Conf == Float(<<"0",".","9">>)

\* DocumentField objects of the analysis SDK, by value type
StringField(text) ==
    [value_type |-> "string", confidence |-> Conf, content |-> Str(text), value_string |-> Str(text)]
NumberField(text) ==
    [value_type |-> "number", confidence |-> Conf, content |-> Str(text), value_number |-> Float(text)]
CurrencyField(text) ==
    [value_type |-> "currency", confidence |-> Conf, content |-> Str(text), value_currency |-> Float(text)]
DateField(y, m, d, text) ==
    [value_type |-> "date", confidence |-> Conf, content |-> Str(text), value_date |-> Date(y, m, d)]
\* a field whose declared type has no payload attribute, or a payload of None
BareField(value_type, text) ==
    [value_type |-> value_type, confidence |-> Conf, content |-> Str(text)]
NoneStringField(text) ==
    [value_type |-> "string", confidence |-> Conf, content |-> Str(text), value_string |-> None]

\* The options of each field name that classification or promotion reads.
FieldOptions ==
    [MerchantName |-> {StringField(<<"T","o","n","y","'","s"," ","G","r","i","l","l">>), StringField(<<"A","c","m","e">>),
                       BareField("string", <<"C","a","f","e"," ","X">>), NoneStringField(<<"B","a","r">>), NumberField(<<"4","2">>)},
     VendorName |-> {StringField(<<"V","e","n","d","o","r">>), BareField("string", <<"V","e","n","d","o","r">>)},
     Total |-> {NumberField(<<"1","2",".","5","0">>), CurrencyField(<<"$","1","2",".","5","0">>)},
     InvoiceTotal |-> {NumberField(<<"9","9">>), CurrencyField(<<"$","9","9">>)},
     TransactionDate |-> {DateField(2024, 1, 2, <<"2"," ","J","a","n"," ","2","4">>), BareField("date", <<"s","o","o","n">>)},
     InvoiceDate |-> {DateField(2023, 12, 31, <<"3","1","/","1","2","/","2","3">>), BareField("date", <<"n","e","v","e","r">>)},
     Tip |-> {CurrencyField(<<"$","2">>)},
     ServiceCharge |-> {NumberField(<<"0">>)}]

\* Every mapping that gives some of `names` one of its options.
RECURSIVE FieldMaps(_)
FieldMaps(names) ==
    IF names = <<>> THEN {EmptyDict}
    ELSE LET rest == FieldMaps(Tail(names))
         IN  rest \cup {Put(m, Head(names), o) : m \in rest, o \in FieldOptions[Head(names)]}

Document(doc_type, fields) == [doc_type |-> doc_type, confidence |-> Conf, fields |-> fields]

\* Documents that vary what classification reads ...
ClassifyDocuments ==
    {Document(t, f) : t \in {"receipt", "invoice", "receipt.retailMeal", PyNone, ""},
                      f \in FieldMaps(<<"MerchantName", "Tip", "ServiceCharge">>)}
      \cup {[doc_type |-> "receipt", confidence |-> Conf], [confidence |-> Conf, fields |-> EmptyDict]}

\* ... and documents that vary what promotion reads.
PromoteDocuments ==
    {Document(t, f) : t \in {"receipt"},
                      f \in FieldMaps(<<"MerchantName", "VendorName", "Total", "InvoiceTotal",
                                        "TransactionDate", "InvoiceDate">>)}

ReceiptDoc ==
    Document("receipt", [MerchantName |-> StringField(<<"T","o","n","y","'","s"," ","G","r","i","l","l">>), Total |-> NumberField(<<"1","2",".","5","0">>)])
InvoiceDoc ==
    Document("invoice", [VendorName |-> StringField(<<"V","e","n","d","o","r">>), InvoiceTotal |-> NumberField(<<"9","9">>),
                         Tip |-> CurrencyField(<<"$","2">>)])
TipDoc == Document("receipt", [Tip |-> CurrencyField(<<"$","2">>)])

\* AnalyzeResult objects: what the analysis service recognizes in a file
Result(documents) == [model_id |-> "prebuilt", documents |-> documents]
NoDocsResult == [model_id |-> "prebuilt"]

ManyResults ==
    {Result(<<d>>) : d \in ClassifyDocuments \cup PromoteDocuments}
      \cup {Result(<<d, ReceiptDoc>>) : d \in {InvoiceDoc, TipDoc}}
      \cup {NoDocsResult, Result(<<>>)}

\* The form fields of a request
FormOptions ==
    [displayName |-> {<<>>, <<"J","a","n","e"," ","D","o","e">>, <<"U+0130", " ", "U+00C9">>},
     fullName |-> {<<>>, <<"J","."," ","D","o","e">>},
     owner |-> {<<>>, <<"b","o","b">>},
     email |-> {<<"j","@","x">>},
     note |-> {<<"x">>}]

RECURSIVE FormMaps(_)
FormMaps(names) ==
    IF names = <<>> THEN {EmptyDict}
    ELSE LET rest == FormMaps(Tail(names))
         IN  rest \cup {Put(m, Head(names), o) : m \in rest, o \in FormOptions[Head(names)]}

ManyForms == FormMaps(<<"displayName", "fullName", "owner", "email", "note">>)

\* A request with a file under the key 'file', and the requests without one
FileRequest(file_name, file_content, form) ==
    [files |-> "file", file_name |-> file_name, file_content |-> file_content, form |-> form]
NoFileRequests ==
    {[files |-> k, file_name |-> <<>>, file_content |-> NoDocsResult, form |-> EmptyDict] :
        k \in {"none", "other"}}

\* The requests of the first and of the second of two concurrent invocations
FirstRequests ==
    NoFileRequests \cup
    {FileRequest(<<"a",".","j","p","g">>, Result(<<ReceiptDoc>>), [displayName |-> <<"J","a","n","e"," ","D","o","e">>]),
     FileRequest(<<"a",".","j","p","g">>, Result(<<InvoiceDoc, ReceiptDoc>>), [owner |-> <<"b","o","b">>, note |-> <<"x">>]),
     FileRequest(<<"b",".","p","n","g">>, Result(<<TipDoc>>), EmptyDict),
     FileRequest(<<"a",".","j","p","g">>, NoDocsResult, [displayName |-> <<"J","a","n","e"," ","D","o","e">>])}

SecondRequests ==
    {FileRequest(<<"a",".","j","p","g">>, Result(<<ReceiptDoc>>), [displayName |-> <<"J","a","n","e"," ","D","o","e">>]),
     FileRequest(<<"b",".","p","n","g">>, Result(<<TipDoc>>), [displayName |-> <<"J","a","n","e"," ","D","o","e">>]),
     FileRequest(<<"c",".","j","p","g">>, Result(<<InvoiceDoc, ReceiptDoc>>), [owner |-> <<"b","o","b">>]),
     [files |-> "none", file_name |-> <<>>, file_content |-> NoDocsResult, form |-> EmptyDict]}

ManyRequests ==
    {FileRequest(<<"s","c","a","n">>, c, [displayName |-> <<"J","a","n","e"," ","D","o","e">>]) : c \in ManyResults}
      \cup {FileRequest(<<"a",".","t","a","r",".","g","z">>, Result(<<ReceiptDoc>>), f) : f \in ManyForms}

\* The settings of the function app
GoodEnv ==
    [DOCUMENT_INTELLIGENCE_ENDPOINT |-> <<"h","t","t","p","s",":","/","/","d","i">>,
     DOCUMENT_INTELLIGENCE_KEY |-> <<"k","1">>,
     BLOB_STORAGE_CONNECTION_STRING |-> <<"A","c","c","o","u","n","t","N","a","m","e","=","a","c","c","t",";","A","c","c","o","u","n","t","K","e","y","=","k","2","=">>]

Environments ==
    {GoodEnv,
     [GoodEnv EXCEPT !["DOCUMENT_INTELLIGENCE_KEY"] = <<>>],
     [n \in DOMAIN GoodEnv \ {"BLOB_STORAGE_CONNECTION_STRING"} |-> GoodEnv[n]],
     [GoodEnv EXCEPT !["BLOB_STORAGE_CONNECTION_STRING"] = <<"A","c","c","o","u","n","t","N","a","m","e","=","a","c","c","t",";","S","h","a","r","e","d","A","c","c","e","s","s","S","i","g","n","a","t","u","r","e","=","s","i","g">>]}

NoLocals ==
    [blob_name |-> <<>>, container_exists |-> FALSE,
     blob_url |-> BlobUrl(<<>>, <<>>, <<>>), sas_url |-> BlobUrl(<<>>, <<>>, <<>>),
     analyzed |-> NoDocsResult, raw_documents |-> NoDocuments,
     vision_results |-> EmptyDict, openai_results |-> EmptyDict,
     steps |-> <<>>]

InitWith(requests, environments, existing) ==
    /\ now = StartTime
    /\ env \in environments
    /\ blobs = EmptyDict
    /\ containers \in existing
    /\ store = <<>>
    /\ ops = <<>>
    /\ conversations = EmptyDict
    /\ req \in requests
    /\ pc = [i \in Invocations |-> "start"]
    /\ loc = [i \in Invocations |-> NoLocals]
    /\ resp = [i \in Invocations |-> NoResponse]

\* Two concurrent invocations, under every environment, the container not yet created
Init ==
    InitWith({[i \in Invocations |-> IF i = 1 THEN r1 ELSE r2] :
                 r1 \in FirstRequests, r2 \in SecondRequests},
             Environments, {{}})

Spec == Init /\ [][Next]_vars

\* One invocation over many analysis results and forms (the other has no file),
\* with a container name of its own that does not exist yet
InitInputs ==
    InitWith({[i \in Invocations |->
                  IF i = 1 THEN r
                  ELSE [files |-> "none", file_name |-> <<>>, file_content |-> NoDocsResult,
                        form |-> EmptyDict]] : r \in ManyRequests},
             {Put(GoodEnv, "BLOB_CONTAINER_NAME", <<"b","i","l","l","s">>)}, {{<<"r","e","c","e","i","p","t","s">>}})

SpecInputs == InitInputs /\ [][Next]_vars

----------------------------------------------------------------------------
(* Claims about the receipt-analysis endpoint *)

\* The records invocation i has inserted, by position in the store
RecordsOf(i) == {k \in DOMAIN store : store[k]._id = Uuid(i)}
OpsOf(i) == {k \in DOMAIN ops : ops[k].by = i}
FirstFields(raw_documents) ==
    IF /\ ~raw_documents.isNone /\ raw_documents.docs # <<>>
       /\ "fields" \in DOMAIN raw_documents.docs[1]
    THEN raw_documents.docs[1].fields
    ELSE EmptyDict

\* The receipt type the classification rules give the first extracted document.
ClassifiedType(raw_documents) ==
    LET d == raw_documents.docs[1]
        fields == FirstFields(raw_documents)
        name == fields["MerchantName"]
        text == IF "MerchantName" \in DOMAIN fields /\ "value" \in DOMAIN name /\ name["value"].t = "str"
                THEN Lower(name["value"].v) ELSE <<>>
        keyword == \E k \in {<<"r","e","s","t","a","u","r","a","n","t">>, <<"c","a","f","e">>, <<"b","a","r">>, <<"g","r","i","l","l">>} : Contains(text, k)
        tip == "Tip" \in DOMAIN fields \/ "ServiceCharge" \in DOMAIN fields
    IN  IF raw_documents.isNone \/ raw_documents.docs = <<>> THEN "unknown"
        ELSE IF d.doc_type \in {PyNone, ""} THEN "unknown"
        ELSE IF d.doc_type = "receipt" THEN (IF keyword \/ tip THEN "restaurant_bill" ELSE "receipt")
        ELSE IF d.doc_type = "invoice" THEN "invoice"
        ELSE "unknown"

\* C1: the receipt_type of a 200 response is the classification of the first
\* extracted document: unknown without documents or doc_type; for a receipt,
\* restaurant_bill exactly when the merchant's string value holds a keyword or
\* a Tip or ServiceCharge field is present, else receipt; invoice for an
\* invoice whatever its fields; unknown for any other doc_type.
C1_ResponseClassification ==
    \A i \in Invocations :
        resp[i].status = 200 =>
            resp[i].body.receipt_type = ClassifiedType(loc[i].raw_documents)

\* A receipt with a Tip and no MerchantName was answered restaurant_bill.
C1_Witness ==
    \E i \in Invocations :
        /\ resp[i].status = 200
        /\ resp[i].body.receipt_type = "restaurant_bill"
        /\ DOMAIN FirstFields(loc[i].raw_documents) = {"Tip"}

\* C2: the receipt_type stored with the record is the classification of the
\* first document, so it equals the receipt_type of the response whenever a
\* document was extracted.
C2_StoredTypeIsResponseType ==
    \A i \in Invocations : \A k \in RecordsOf(i) :
        (resp[i].status = 200 /\ loc[i].raw_documents.docs # <<>>) =>
            store[k].receipt_type = resp[i].body.receipt_type

\* The username of the document key: the first non-empty of displayName,
\* fullName, owner, else 'unknown'.
KeyUsername(user_info) ==
    LET set(k) == k \in DOMAIN user_info /\ user_info[k] # <<>>
    IN  IF set("displayName") THEN user_info["displayName"]
        ELSE IF set("fullName") THEN user_info["fullName"]
        ELSE IF set("owner") THEN user_info["owner"]
        ELSE <<"u","n","k","n","o","w","n">>

\* C3: document_key is '<receipt_type>_<normalize(username)>_<YYYYMMDDHHMMSS>'
\* with the record's own receipt_type and upload time; displayName 'Jane Doe',
\* type receipt, 2024-01-02T03:04:05Z give 'receipt_jane_doe_20240102030405'.
C3_DocumentKey ==
    \A k \in DOMAIN store :
        LET r == store[k]
        IN  /\ \E t \in StartTime..(StartTime + MaxTicks) :
                 /\ r.upload_timestamp = IsoTimestamp(t)
                 /\ r.document_key =
                        Chars[r.receipt_type] \o <<"_">>
                          \o convert_to_snake_case(KeyUsername(r.user_info))
                          \o <<"_">> \o strftime(t)
            /\ ( /\ Get(r.user_info, "displayName", <<>>) = <<"J","a","n","e"," ","D","o","e">>
                 /\ r.receipt_type = "receipt"
                 /\ r.upload_timestamp = <<"2","0","2","4","-","0","1","-","0","2","T","0","3",":","0","4",":","0","5">> )
               => r.document_key = <<"r","e","c","e","i","p","t","_","j","a","n","e","_","d","o","e","_","2","0","2","4","0","1","0","2","0","3","0","4","0","5">>

\* A record was stored for Jane Doe under the key of the example.
C3_Witness ==
    \E k \in DOMAIN store :
        /\ store[k].user_info = [displayName |-> <<"J","a","n","e"," ","D","o","e">>]
        /\ store[k].document_key = <<"r","e","c","e","i","p","t","_","j","a","n","e","_","d","o","e","_","2","0","2","4","0","1","0","2","0","3","0","4","0","5">>

\* C4: an invocation's analysis input and record refer to its own uploaded
\* file: what the analysis service read through the invocation's access URL
\* is the file the invocation uploaded.
C4_OwnFileAnalyzed ==
    \A i \in Invocations :
        "analyze" \in Range(loc[i].steps) => loc[i].analyzed = req[i].file_content

\* C5: a failed insert ends the receipt request with 500 and a body that
\* holds only an 'error' string; nothing is stored and no success payload
\* is returned.
C5_StoreFailureIs500 ==
    \A i \in Invocations :
        (\E k \in OpsOf(i) : ~ops[k].ok) =>
            /\ resp[i].status = 500
            /\ DOMAIN resp[i].body = {"error"}
            /\ resp[i].body.error.t = "str"
            /\ RecordsOf(i) = {}

\* The insert of an invocation failed after its upload and analysis succeeded.
C5_Witness ==
    \E i \in Invocations :
        /\ \E k \in OpsOf(i) : ~ops[k].ok
        /\ loc[i].steps = <<"upload", "sas", "analyze">>
        /\ pc[i] = "done"

\* The promoted scalars with their first and second source
Promotions ==
    {<<"merchant", "MerchantName", "VendorName">>, <<"total", "Total", "InvoiceTotal">>,
     <<"date", "TransactionDate", "InvoiceDate">>}

HasValue(fields, n) == n \in DOMAIN fields /\ "value" \in DOMAIN fields[n]

\* C7 as stated: each scalar is the value of its first source, else of its
\* second; with both present the first one's value is promoted; with neither
\* no key is written.
C7_FirstMatch ==
    \A i \in Invocations : \A k \in RecordsOf(i) : \A p \in Promotions :
        LET fields == FirstFields(loc[i].raw_documents)
            r == store[k]
        IN  /\ p[2] \in DOMAIN fields =>
                 /\ p[1] \in DOMAIN r /\ HasValue(fields, p[2])
                 /\ r[p[1]] = fields[p[2]]["value"]
            /\ (p[2] \notin DOMAIN fields /\ p[3] \in DOMAIN fields) =>
                 /\ p[1] \in DOMAIN r /\ HasValue(fields, p[3])
                 /\ r[p[1]] = fields[p[3]]["value"]
            /\ (p[2] \notin DOMAIN fields /\ p[3] \notin DOMAIN fields) => p[1] \notin DOMAIN r

\* C7 (amended): per scalar the source is the first that is present by name;
\* its value is promoted when it has one; the second source is ignored
\* whenever the first is present; no key is written when the chosen source
\* has no value or neither source exists.
C7_FirstPresentSource ==
    \A i \in Invocations : \A k \in RecordsOf(i) : \A p \in Promotions :
        LET fields == FirstFields(loc[i].raw_documents)
            r == store[k]
            source == IF p[2] \in DOMAIN fields THEN p[2] ELSE p[3]
        IN  IF HasValue(fields, source)
            THEN p[1] \in DOMAIN r /\ r[p[1]] = fields[source]["value"]
            ELSE p[1] \notin DOMAIN r

\* A record was stored whose first document has Total and InvoiceTotal with
\* different values, and one whose MerchantName has no value while its
\* VendorName has one.
C7_Witness ==
    \E i \in Invocations : \E k \in RecordsOf(i) :
        LET fields == FirstFields(loc[i].raw_documents)
        IN  /\ HasValue(fields, "Total") /\ HasValue(fields, "InvoiceTotal")
            /\ fields["Total"]["value"] # fields["InvoiceTotal"]["value"]
            /\ "total" \in DOMAIN store[k]
            /\ "MerchantName" \in DOMAIN fields /\ ~HasValue(fields, "MerchantName")
            /\ HasValue(fields, "VendorName")

RecordKeys ==
    {"_id", "document_key", "blob_name", "blob_url", "sas_url", "upload_timestamp",
     "receipt_type", "user_info", "metadata", "raw_documents"}

\* C8: whatever is promoted, raw_documents is the whole extracted sequence,
\* in order and unmodified, and blob_name, blob_url, sas_url, user_info and
\* metadata are the inputs.
C8_PromotionIsAdditive ==
    \A i \in Invocations : \A k \in RecordsOf(i) :
        LET r == store[k]
        IN  /\ r.raw_documents = ExtractDocuments(loc[i].analyzed).docs
            /\ r.raw_documents = loc[i].raw_documents.docs
            /\ r.blob_name = loc[i].blob_name
            /\ r.blob_url = loc[i].blob_url
            /\ r.sas_url = loc[i].sas_url
            /\ r.user_info = [n \in DOMAIN req[i].form \cap UserInfoKeys |-> req[i].form[n]]
            /\ r.metadata = [n \in DOMAIN req[i].form \ UserInfoKeys |-> req[i].form[n]]
            /\ RecordKeys \subseteq DOMAIN r
            /\ DOMAIN r \subseteq RecordKeys \cup {"merchant", "total", "date"}

\* A record with two raw documents and a promoted scalar was stored.
C8_Witness ==
    \E k \in DOMAIN store :
        /\ Len(store[k].raw_documents) = 2
        /\ DOMAIN store[k] \cap {"merchant", "total", "date"} # {}

\* C9: no two records of the store have the same document_key.
C9_UniqueDocumentKey ==
    \A a, b \in DOMAIN store : a # b => store[a].document_key # store[b].document_key

\* C10 in a state: an invocation issues at most one insert, only inserts are
\* issued, an insert follows the upload, the access URL and the analysis, and
\* an invocation that ended with 400 or 500 before them issued none.
C10_State ==
    /\ \A k \in DOMAIN ops : ops[k].op = "insert_one"
    /\ \A i \in Invocations :
          /\ Cardinality(OpsOf(i)) <= 1
          /\ Cardinality(RecordsOf(i)) <= 1
          /\ OpsOf(i) # {} => loc[i].steps = <<"upload", "sas", "analyze">>
          /\ (resp[i].status \in {400, 500} /\ loc[i].steps # <<"upload", "sas", "analyze">>)
                => OpsOf(i) = {}

\* C10 in a step: what is stored stays as it was stored.
C10_Step == \A k \in DOMAIN store : k \in DOMAIN store' /\ store'[k] = store[k]

\* C10: a record is written once and only after extraction, and never changed.
C10_WrittenOnceAfterExtraction == [](C10_State) /\ [][C10_Step]_vars

\* An invocation stored its record, and another ended with an error after
\* its upload without issuing an insert.
C10_Witness ==
    \E i, j \in Invocations :
        /\ RecordsOf(i) # {} /\ resp[i].status = 200
        /\ resp[j].status \in {400, 500} /\ loc[j].steps = <<"upload", "sas">> /\ OpsOf(j) = {}

----------------------------------------------------------------------------
(* The menu-analysis endpoint: analyze-menu-image *)

\* A confidence of the vision service is kept in hundredths: 0.82 is 82.
\* analyze_menu_image: `food_tags[0]["confidence"] > 0.7`
DishConfidence == 70

FoodCategories ==
    <<<<"f","o","o","d">>, <<"c","u","i","s","i","n","e">>, <<"d","i","s","h">>, <<"m","e","a","l">>, <<"i","n","g","r","e","d","i","e","n","t">>, <<"d","e","s","s","e","r","t">>, <<"f","r","u","i","t">>, <<"v","e","g","e","t","a","b","l","e">>, <<"m","e","a","t">>>>

\* analyze_menu_image, "Extract tags related to food"
IsFoodTag(tag) == \E c \in Range(FoodCategories) : Contains(Lower(tag.name), c)

\* A slip: every tag is taken as a food tag
FoodTagsUnfiltered(tags) == [k \in DOMAIN tags |-> [name |-> tags[k].name, confidence |-> tags[k].confidence]]

FoodTags(tags) == SelectSeq([k \in DOMAIN tags |-> [name |-> tags[k].name, confidence |-> tags[k].confidence]], IsFoodTag)

\* A slip: a tag is put before the tags of the same confidence
RECURSIVE InsertBeforeEqual(_, _)
InsertBeforeEqual(sorted, tag) ==
    IF sorted = <<>> THEN <<tag>>
    ELSE IF Head(sorted).confidence > tag.confidence
         THEN <<Head(sorted)>> \o InsertBeforeEqual(Tail(sorted), tag)
         ELSE <<tag>> \o sorted

\* list.sort(key=confidence, reverse=True): stable, equal confidences keep their order
RECURSIVE InsertByConfidence(_, _)
InsertByConfidence(sorted, tag) ==
    IF sorted = <<>> THEN <<tag>>
    ELSE IF Head(sorted).confidence >= tag.confidence
         THEN <<Head(sorted)>> \o InsertByConfidence(Tail(sorted), tag)
         ELSE <<tag>> \o sorted

RECURSIVE SortByConfidence(_)
SortByConfidence(tags) ==
    IF tags = <<>> THEN <<>>
    ELSE InsertByConfidence(SortByConfidence(SubSeq(tags, 1, Len(tags) - 1)), tags[Len(tags)])

\* re.sub(pattern, '', s) for a pattern that is a choice of literals: leftmost,
\* non-overlapping matches are removed
RECURSIVE RemoveAll(_, _)
RemoveAll(s, literals) ==
    IF s = <<>> THEN <<>>
    ELSE IF \E l \in literals : StartsAt(s, 1, l)
         THEN LET l == CHOOSE x \in literals : StartsAt(s, 1, x)
              IN  RemoveAll(SubSeq(s, Len(l) + 1, Len(s)), literals)
         ELSE <<Head(s)>> \o RemoveAll(Tail(s), literals)

\* str.strip()
RECURSIVE Strip(_)
Strip(s) ==
    IF s = <<>> THEN <<>>
    ELSE IF IsSpaceChar(Head(s)) THEN Strip(Tail(s))
    ELSE IF IsSpaceChar(s[Len(s)]) THEN Strip(SubSeq(s, 1, Len(s) - 1))
    ELSE s

\* r'(a|an) (photo|picture|image) of' and r'a plate of'
PhotoLeadIns ==
    {a \o <<" ">> \o b \o <<" ","o","f">> : a \in {<<"a">>, <<"a","n">>}, b \in {<<"p","h","o","t","o">>, <<"p","i","c","t","u","r","e">>, <<"i","m","a","g","e">>}}
PlateLeadIns == {<<"a"," ","p","l","a","t","e"," ","o","f">>}

\* A slip: the lead-ins stay in the caption
CaptionSubjectKept(text) == Strip(Lower(text))

\* analyze_menu_image, "Extract the main subject from the caption"
CaptionSubject(text) == Strip(RemoveAll(Strip(RemoveAll(Lower(text), PhotoLeadIns)), PlateLeadIns))

\* analyze_menu_image: menu_text += line.text + "\n", over the blocks in order
RECURSIVE Flatten(_)
Flatten(seqs) == IF seqs = <<>> THEN <<>> ELSE Head(seqs) \o Flatten(Tail(seqs))
MenuText(blocks) == Flatten([k \in DOMAIN Flatten(blocks) |-> Flatten(blocks)[k] \o <<"\n">>])

\* re.match(r'^[A-Z][a-zA-Z\s]+$', line)
IsTitleLine(line) ==
    /\ Len(line) >= 2
    /\ line[1] \in Range(UpperLetters)
    /\ \A k \in 2..Len(line) :
          line[k] \in Range(UpperLetters) \cup Range(LowerLetters) \/ IsSpaceChar(line[k])

\* analyze_menu_image, "Look for capitalized text that might be a dish name"
TitleLine(menu_text) ==
    LET lines == [k \in DOMAIN Split(menu_text, "\n") |-> Strip(Split(menu_text, "\n")[k])]
        titles == {k \in DOMAIN lines : IsTitleLine(lines[k])}
    IN  IF titles = {} THEN <<>>
        ELSE lines[CHOOSE k \in titles : \A j \in titles : k <= j]

\* A slip: a title line of the text is preferred to the tags and the caption
DishNameTextFirst(food_tags, caption, menu_text) ==
    LET named ==
            IF food_tags # <<>> /\ food_tags[1].confidence > DishConfidence THEN food_tags[1].name
            ELSE IF caption.present /\ Contains(Lower(caption.text), <<"f","o","o","d">>)
                 THEN CaptionSubject(caption.text)
            ELSE <<>>
    IN  IF menu_text # <<>> /\ TitleLine(menu_text) # <<>> THEN TitleLine(menu_text) ELSE named

\* analyze_menu_image: dish_name from the sorted food tags, the caption and the text
DishName(food_tags, caption, menu_text) ==
    LET named ==
            IF food_tags # <<>> /\ food_tags[1].confidence > DishConfidence THEN food_tags[1].name
            ELSE IF caption.present /\ Contains(Lower(caption.text), <<"f","o","o","d">>)
                 THEN CaptionSubject(caption.text)
            ELSE <<>>
    IN  IF menu_text # <<>> /\ named = <<>> THEN TitleLine(menu_text) ELSE named

\* analyze_menu_image when client.analyze returns `result`; an object without tags
\* raises inside the try and is reported as an error
VisionResults(result) ==
    IF \E k \in DOMAIN result.objects : result.objects[k].tags = <<>>
    THEN [error |-> <<"list index out of range">>]
    ELSE [dish_name |-> DishName(SortByConfidence(FoodTags(result.tags)), result.caption,
                                 MenuText(result.blocks)),
          caption |-> IF result.caption.present THEN result.caption.text ELSE <<>>,
          caption_confidence |-> IF result.caption.present THEN result.caption.confidence ELSE 0,
          food_tags |-> SortByConfidence(FoodTags(result.tags)),
          menu_text |-> MenuText(result.blocks),
          objects |-> [k \in DOMAIN result.objects |->
                          [name |-> result.objects[k].tags[1].name,
                           confidence |-> result.objects[k].tags[1].confidence]]]

\* main: container_name = os.environ.get("BLOB_CONTAINER_NAME", "menu-images")
MenuContainerName == Get(env, "BLOB_CONTAINER_NAME", <<"m","e","n","u","-","i","m","a","g","e","s">>)

\* main: "Check for missing required configuration", in the order it is reported
MenuMissingConfig ==
    SelectSeq(<<"VISION_ENDPOINT", "VISION_KEY", "OPENAI_ENDPOINT", "OPENAI_KEY",
                "BLOB_STORAGE_CONNECTION_STRING">>,
              LAMBDA n : Getenv(n) = <<>>)

\* main: the form fields that are neither user info nor dietary preferences
MenuMetadataOf(form) ==
    [k \in DOMAIN form \ (UserInfoKeys \cup {"file", "dietary_restrictions", "health_conditions"})
        |-> form[k]]

\* main: req.form[key].split(','), [] without the key
ListOf(form, key) == IF key \in DOMAIN form THEN Split(form[key], ",") ELSE <<>>

\* upload_to_blob_storage: blob_name = f"menu_{timestamp}{file_extension}"
MenuBlobName(t, file_name) == <<"m","e","n","u","_">> \o strftime(t) \o FileExtension(file_name)

\* main up to the call of upload_to_blob_storage
MenuReceive(i) ==
    /\ pc[i] = "start"
    /\ IF req[i].files = "none"
       THEN Finish(i, ErrorResponse(400, <<"No file uploaded. Please upload a file using multipart/form-data.">>))
       ELSE IF req[i].files # "file"
       THEN Finish(i, ErrorResponse(400, <<"No file found with the key 'file'. Please ensure your form uses 'file' as the field name.">>))
       ELSE IF MenuMissingConfig # <<>>
       THEN Finish(i, ErrorResponse(500, <<"Missing required configuration: ">> \o MenuMissingConfig))
       ELSE /\ pc' = [pc EXCEPT ![i] = "container"]
            /\ UNCHANGED resp
    /\ UNCHANGED <<now, env, conversations, blobs, containers, store, ops, req, loc>>

\* upload_to_blob_storage up to container_client.exists()
MenuCheckContainer(i) ==
    /\ pc[i] = "container"
    /\ \/ /\ loc' = [loc EXCEPT ![i].blob_name = MenuBlobName(now, req[i].file_name),
                                ![i].container_exists = MenuContainerName \in containers]
          /\ pc' = [pc EXCEPT ![i] = "upload"]
          /\ UNCHANGED resp
       \/ \E e \in SdkErrors : Finish(i, Handle(e)) /\ UNCHANGED loc
    /\ UNCHANGED <<now, env, conversations, blobs, containers, store, ops, req>>

\* upload_to_blob_storage: create_container() when it was not seen, then upload_blob
MenuUpload(i) ==
    /\ pc[i] = "upload"
    /\ \/ /\ loc[i].container_exists \/ MenuContainerName \notin containers
          /\ containers' = containers \cup {MenuContainerName}
          /\ blobs' = Put(blobs, loc[i].blob_name,
                          [content |-> req[i].file_content, metadata |-> MenuMetadataOf(req[i].form)])
          /\ loc' = [loc EXCEPT ![i].blob_url =
                        BlobUrl(AccountName(ConnectionString), MenuContainerName, loc[i].blob_name),
                                ![i].steps = Append(@, "upload")]
          /\ pc' = [pc EXCEPT ![i] = "sas"]
          /\ UNCHANGED resp
       \/ /\ ~loc[i].container_exists /\ MenuContainerName \in containers
          /\ Finish(i, Handle("HttpResponseError"))
          /\ UNCHANGED <<blobs, containers, loc>>
       \/ /\ \E e \in SdkErrors : Finish(i, Handle(e))
          /\ UNCHANGED <<blobs, containers, loc>>
    /\ UNCHANGED <<now, env, conversations, store, ops, req>>

\* generate_sas_url
MenuGenerateSas(i) ==
    /\ pc[i] = "sas"
    /\ IF AccountName(ConnectionString) = <<>> \/ AccountKey(ConnectionString) = <<>>
       THEN Finish(i, Handle("ValueError")) /\ UNCHANGED loc
       ELSE /\ loc' = [loc EXCEPT ![i].sas_url =
                          SasUrl(AccountName(ConnectionString), MenuContainerName,
                                 loc[i].blob_name, now + 3600),
                               ![i].steps = Append(@, "sas")]
            /\ pc' = [pc EXCEPT ![i] = "vision"]
            /\ UNCHANGED resp
    /\ UNCHANGED <<now, env, conversations, blobs, containers, store, ops, req>>

\* A slip: a failure of the vision call is raised to main
VisionRaises(i) ==
    /\ pc[i] = "vision"
    /\ \/ /\ "error" \notin DOMAIN VisionResults(req[i].file_content)
          /\ loc' = [loc EXCEPT ![i].vision_results = VisionResults(req[i].file_content),
                                ![i].steps = Append(@, "vision")]
          /\ pc' = [pc EXCEPT ![i] = "advice"]
          /\ UNCHANGED resp
       \/ /\ loc' = [loc EXCEPT ![i].vision_results = [error |-> <<"vision call failed">>],
                                ![i].steps = Append(@, "vision")]
          /\ Finish(i, Handle("HttpResponseError"))
    /\ UNCHANGED <<now, env, conversations, blobs, containers, store, ops, req>>

\* analyze_menu_image(vision_endpoint, vision_key, file_content): the image itself is
\* sent; a failure of client.analyze is returned as {"error": message}
Vision(i) ==
    /\ pc[i] = "vision"
    /\ \/ loc' = [loc EXCEPT ![i].vision_results = VisionResults(req[i].file_content),
                             ![i].steps = Append(@, "vision")]
       \/ loc' = [loc EXCEPT ![i].vision_results = [error |-> <<"vision call failed">>],
                             ![i].steps = Append(@, "vision")]
    /\ pc' = [pc EXCEPT ![i] = "advice"]
    /\ UNCHANGED <<now, env, conversations, blobs, containers, store, ops, req, resp>>

\* What the completion service may answer, parsed by json.loads
Dict(d) == [t |-> "dict", v |-> d]
Completions ==
    {[description |-> Str(<<"a dish">>), calories |-> Str(<<"300-400">>),
      nutrition |-> Dict([protein |-> Str(<<"10g">>)]), dietary_info |-> Str(<<"vegan">>),
      health_warnings |-> Str(<<"none">>)],
     [description |-> Str(<<"a dish">>), nutrition |-> Str(<<"unknown">>)]}

\* get_dietary_advice: the parsed answer with dish_analyzed and analysis_timestamp added
AdviceOk(vision_results, completion, t) ==
    Put(Put(completion, "dish_analyzed", Str(Get(vision_results, "dish_name", <<"U","n","k","n","o","w","n"," ","d","i","s","h">>))),
        "analysis_timestamp", Str(IsoTimestamp(t)))

\* get_dietary_advice when the call or json.loads raises
AdviceFailed(vision_results, message, t) ==
    [error |-> Str(message),
     dish_analyzed |-> Str(Get(vision_results, "dish_name", <<"U","n","k","n","o","w","n"," ","d","i","s","h">>)),
     analysis_timestamp |-> Str(IsoTimestamp(t))]

Advice(i) ==
    /\ pc[i] = "advice"
    /\ \/ \E c \in Completions :
            loc' = [loc EXCEPT ![i].openai_results = AdviceOk(loc[i].vision_results, c, now),
                               ![i].steps = Append(@, "advice")]
       \/ loc' = [loc EXCEPT ![i].openai_results =
                     AdviceFailed(loc[i].vision_results, <<"completion failed">>, now),
                             ![i].steps = Append(@, "advice")]
    /\ pc' = [pc EXCEPT ![i] = "save"]
    /\ UNCHANGED <<now, env, conversations, blobs, containers, store, ops, req, resp>>

\* save_menu_analysis_to_db, "Get dish name from analysis"
KeyDishName(analysis_results) ==
    convert_to_snake_case(
        IF "vision_analysis" \in DOMAIN analysis_results
           /\ "dish_name" \in DOMAIN analysis_results.vision_analysis
        THEN analysis_results.vision_analysis.dish_name
        ELSE <<"u","n","k","n","o","w","n","_","d","i","s","h">>)

\* doc_key = f"menu_{dish_name}_{username}_{timestamp.strftime('%Y%m%d%H%M%S')}"
MenuDocKey(analysis_results, user_info, t) ==
    <<"m","e","n","u","_">> \o KeyDishName(analysis_results) \o <<"_">> \o Username(user_info)
      \o <<"_">> \o strftime(t)

\* save_menu_analysis_to_db: "add it at the top level for easier querying"
RECURSIVE CopyKeys(_, _, _)
CopyKeys(record, dietary, keys) ==
    IF keys = <<>> THEN record
    ELSE CopyKeys(IF /\ Head(keys) \in DOMAIN dietary
                     /\ Head(keys) = "nutrition" => dietary[Head(keys)].t = "dict"
                  THEN Put(record, Head(keys), dietary[Head(keys)]) ELSE record,
                  dietary, Tail(keys))

\* save_menu_analysis_to_db: the record handed to insert_one
MenuRecord(id, t, blob_name, blob_url, sas_url, user_info, metadata, dietary_restrictions, health_conditions, analysis_results) ==
    CopyKeys(
        [_id |-> id,
         document_key |-> MenuDocKey(analysis_results, user_info, t),
         blob_name |-> blob_name,
         blob_url |-> blob_url,
         sas_url |-> sas_url,
         upload_timestamp |-> IsoTimestamp(t),
         dish_name |-> Get(Get(analysis_results, "vision_analysis", EmptyDict), "dish_name", <<"U","n","k","n","o","w","n"," ","d","i","s","h">>),
         user_info |-> user_info,
         metadata |-> metadata,
         dietary_restrictions |-> dietary_restrictions,
         health_conditions |-> health_conditions,
         analysis_results |-> analysis_results],
        analysis_results.dietary_analysis,
        <<"calories", "nutrition", "dietary_info", "health_warnings">>)

MenuRecordOf(i, t) ==
    MenuRecord(Uuid(i), t, loc[i].blob_name, loc[i].blob_url, loc[i].sas_url,
               UserInfoOf(req[i].form), MenuMetadataOf(req[i].form),
               ListOf(req[i].form, "dietary_restrictions"), ListOf(req[i].form, "health_conditions"),
               [vision_analysis |-> loc[i].vision_results, dietary_analysis |-> loc[i].openai_results])

\* main's response_data
MenuResponseData(i, db_response) ==
    [message |-> <<"Menu image analysis completed successfully">>,
     blob_name |-> loc[i].blob_name,
     blob_url |-> loc[i].blob_url,
     document_key |-> db_response.document_key,
     document_id |-> db_response.id,
     dish_name |-> Get(loc[i].vision_results, "dish_name", <<"U","n","k","n","o","w","n"," ","d","i","s","h">>),
     analysis |-> loc[i].openai_results]

\* save_menu_analysis_to_db when insert_one succeeds, and the rest of main
MenuSaveOk(i) ==
    /\ store' = Append(store, MenuRecordOf(i, now))
    /\ ops' = Append(ops, [op |-> "insert_one", by |-> i, ok |-> TRUE])
    /\ Finish(i, [status |-> 200,
                  body |-> MenuResponseData(i,
                              [id |-> Uuid(i), document_key |-> MenuRecordOf(i, now).document_key,
                               status |-> "saved"])])

\* save_menu_analysis_to_db when the store raises: "Return partial success so
\* front-end can still show results", and the rest of main
MenuSaveFailed(i) ==
    /\ ops' = Append(ops, [op |-> "insert_one", by |-> i, ok |-> FALSE])
    /\ Finish(i, [status |-> 200,
                  body |-> MenuResponseData(i,
                              [id |-> <<"error-saving">>,
                               document_key |-> MenuRecordOf(i, now).document_key,
                               status |-> "analysis-completed-but-not-saved",
                               error |-> <<"PyMongoError">>])])
    /\ UNCHANGED store

MenuSave(i) ==
    /\ pc[i] = "save"
    /\ MenuSaveOk(i) \/ MenuSaveFailed(i)
    /\ UNCHANGED <<now, env, conversations, blobs, containers, req, loc>>

NextMenu ==
    \/ \E i \in Invocations :
          \/ MenuReceive(i)
          \/ MenuCheckContainer(i)
          \/ MenuUpload(i)
          \/ MenuGenerateSas(i)
          \/ Vision(i)
          \/ Advice(i)
          \/ MenuSave(i)
    \/ Tick

\* What the vision service may return for an image: tags, a caption, text blocks of
\* lines, and detected objects with their tags (confidences in hundredths)
Tag(name, confidence) == [name |-> name, confidence |-> confidence]
NoCaption == [present |-> FALSE, text |-> <<>>, confidence |-> 0]
Caption(text, confidence) == [present |-> TRUE, text |-> text, confidence |-> confidence]
Image(tags, caption, blocks, objects) ==
    [tags |-> tags, caption |-> caption, blocks |-> blocks, objects |-> objects]

PizzaImage ==
    Image(<<Tag(<<"p","l","a","t","e">>, 95), Tag(<<"F","a","s","t"," ","F","o","o","d">>, 82)>>, Caption(<<"a"," ","p","l","a","t","e"," ","o","f"," ","f","o","o","d">>, 60),
          <<>>, <<[tags |-> <<Tag(<<"p","l","a","t","e">>, 90)>>]>>)
BowlImage ==
    Image(<<Tag(<<"f","o","o","d">>, 70)>>, Caption(<<"a"," ","p","h","o","t","o"," ","o","f"," ","a"," ","b","o","w","l"," ","o","f"," ","f","o","o","d">>, 80), <<>>, <<>>)
TextImage ==
    Image(<<>>, NoCaption, <<<<<<"2"," ","f","o","r"," ","1">>, <<" ","P","a","s","t","a"," ","M","e","n","u"," ">>>>, <<<<"S","o","u","p">>>>>>, <<>>)
BareObjectImage ==
    Image(<<Tag(<<"d","e","s","s","e","r","t">>, 90)>>, NoCaption, <<>>, <<[tags |-> <<>>]>>)

MenuFirstRequests ==
    NoFileRequests \cup
    {FileRequest(<<"a",".","j","p","g">>, PizzaImage, [displayName |-> <<"J","a","n","e"," ","D","o","e">>, dietary_restrictions |-> <<"v","e","g","a","n",",","n","u","t","-","f","r","e","e">>]),
     FileRequest(<<"a",".","j","p","g">>, BowlImage, [owner |-> <<"b","o","b">>, note |-> <<"x">>]),
     FileRequest(<<"b",".","p","n","g">>, TextImage, EmptyDict),
     FileRequest(<<"m","e","n","u">>, BareObjectImage, [displayName |-> <<"J","a","n","e"," ","D","o","e">>, health_conditions |-> <<"d","i","a","b","e","t","e","s">>])}

MenuSecondRequests ==
    {FileRequest(<<"a",".","j","p","g">>, PizzaImage, [displayName |-> <<"J","a","n","e"," ","D","o","e">>]),
     FileRequest(<<"c",".","j","p","g">>, TextImage, [fullName |-> <<"J","."," ","D","o","e">>]),
     [files |-> "none", file_name |-> <<>>, file_content |-> NoDocsResult, form |-> EmptyDict]}

\* The settings of the menu function app
GoodMenuEnv ==
    [VISION_ENDPOINT |-> <<"h","t","t","p","s",":","/","/","v","i","s","i","o","n">>, VISION_KEY |-> <<"k","3">>,
     OPENAI_ENDPOINT |-> <<"h","t","t","p","s",":","/","/","o","p","e","n","a","i">>, OPENAI_KEY |-> <<"k","4">>,
     BLOB_STORAGE_CONNECTION_STRING |-> GoodEnv["BLOB_STORAGE_CONNECTION_STRING"]]

MenuEnvironments ==
    {GoodMenuEnv,
     [GoodMenuEnv EXCEPT !["OPENAI_KEY"] = <<>>],
     [GoodMenuEnv EXCEPT !["BLOB_STORAGE_CONNECTION_STRING"] = <<"A","c","c","o","u","n","t","N","a","m","e","=","a","c","c","t",";","S","h","a","r","e","d","A","c","c","e","s","s","S","i","g","n","a","t","u","r","e","=","s","i","g">>]}

\* Two concurrent invocations of the menu endpoint
InitMenu ==
    InitWith({[i \in Invocations |-> IF i = 1 THEN r1 ELSE r2] :
                 r1 \in MenuFirstRequests, r2 \in MenuSecondRequests},
             MenuEnvironments, {{}})

SpecMenu == InitMenu /\ [][NextMenu]_vars

(***************************************************************************)
(* Claims about the menu-analysis endpoint *)
(***************************************************************************)

\* The insert of invocation i was refused by the store
InsertFailed(i) == \E k \in OpsOf(i) : ~ops[k].ok

\* C6: a failed insert does not fail the menu request: it ends with 200 and the
\* analysis, and the payload carries the report of the save, the status
\* 'analysis-completed-but-not-saved' or its error, which a saved request lacks.
C6_StoreFailureReported ==
    \A i \in Invocations :
        InsertFailed(i) =>
            /\ resp[i].status = 200
            /\ resp[i].body.analysis = loc[i].openai_results
            /\ \/ /\ "status" \in DOMAIN resp[i].body
                  /\ resp[i].body.status = "analysis-completed-but-not-saved"
               \/ "error" \in DOMAIN resp[i].body

----------------------------------------------------------------------------
(* The vision reducer over many images: one menu invocation, every step of   *)
(* it as in the handler, the image drawn from a wide domain                  *)

\* Every list of at most n tags of a set
RECURSIVE TagLists(_, _)
TagLists(tags, n) ==
    IF n = 0 THEN {<<>>}
    ELSE TagLists(tags, n - 1)
           \cup {Append(l, t) : l \in {x \in TagLists(tags, n - 1) : Len(x) = n - 1}, t \in tags}

\* The longest tag list of an image that varies the tags only
MaxTags == 3

SortTags == {Tag(<<"p","l","a","t","e">>, 82), Tag(<<"S","e","a","F","o","o","d">>, 82), Tag(<<"d","e","s","s","e","r","t">>, 82), Tag(<<"d","e","s","s","e","r","t">>, 70)}

CaptionOptions ==
    {NoCaption, Caption(<<"a"," ","p","h","o","t","o"," ","o","f"," ","a"," ","b","o","w","l"," ","o","f"," ","f","o","o","d">>, 80), Caption(<<"A"," ","P","l","a","t","e"," ","o","f"," ","F","o","o","d">>, 90),
     Caption(<<"a","n"," ","i","m","a","g","e"," ","o","f"," ","a"," ","d","o","g">>, 50)}

BlockOptions ==
    {<<>>, <<<<<<"s","o","u","p"," ","5">>, <<" ","P","a","s","t","a"," ","M","e","n","u"," ">>>>, <<<<"T","e","a">>>>>>, <<<<<<"A">>>>>>, <<<<<<"2"," ","f","o","r"," ","1">>>>>>}

PriorityTagLists ==
    {<<>>, <<Tag(<<"f","o","o","d">>, 70)>>, <<Tag(<<"s","e","a","f","o","o","d">>, 82), Tag(<<"p","l","a","t","e">>, 95)>>,
     <<Tag(<<"p","i","z","z","a">>, 82), Tag(<<"p","l","a","t","e">>, 95)>>}

ManyImages ==
    {Image(t, NoCaption, <<>>, <<>>) : t \in TagLists(SortTags, MaxTags)}
      \cup {Image(t, c, b, <<>>) : t \in PriorityTagLists, c \in CaptionOptions, b \in BlockOptions}
      \cup {PizzaImage, BareObjectImage}

InitVision ==
    InitWith({[i \in Invocations |->
                  IF i = 1 THEN FileRequest(<<"m","e","n","u",".","j","p","g">>, img, [displayName |-> <<"J","a","n","e"," ","D","o","e">>])
                  ELSE [files |-> "none", file_name |-> <<>>, file_content |-> NoDocsResult,
                        form |-> EmptyDict]] : img \in ManyImages},
             {GoodMenuEnv}, {{}})

SpecVision == InitVision /\ [][NextMenu]_vars

\* analyze_menu_image returned its summary to invocation i
VisionDone(i) ==
    /\ "vision" \in Range(loc[i].steps)
    /\ "dish_name" \in DOMAIN loc[i].vision_results

(***************************************************************************)
(* Claims about the vision reducer, analyze_menu_image *)
(***************************************************************************)

\* C11 as stated: for the tags [{pizza, 0.82}, {plate, 0.95}] the dish name is 'pizza'.
C11_PizzaLabel ==
    \A i \in Invocations :
        (VisionDone(i) /\ req[i].file_content.tags = <<Tag(<<"p","i","z","z","a">>, 82), Tag(<<"p","l","a","t","e">>, 95)>>)
            => loc[i].vision_results.dish_name = <<"p","i","z","z","a">>

\* C11 (amended): neither 'pizza' nor 'plate' holds a food keyword, so these tags
\* give no food tag and no tag-derived dish name ('' without caption and text);
\* tags outside the food domain are excluded whatever their confidence, and the
\* highest food tag above 0.7 is the dish name: [{seafood, 0.82}, {plate, 0.95}]
\* gives 'seafood'.
C11_FoodTagLabel ==
    \A i \in Invocations :
        VisionDone(i) =>
            /\ req[i].file_content.tags = <<Tag(<<"p","i","z","z","a">>, 82), Tag(<<"p","l","a","t","e">>, 95)>> =>
                  /\ loc[i].vision_results.food_tags = <<>>
                  /\ loc[i].vision_results.dish_name \notin {<<"p","i","z","z","a">>, <<"p","l","a","t","e">>}
                  /\ (~req[i].file_content.caption.present /\ req[i].file_content.blocks = <<>>)
                        => loc[i].vision_results.dish_name = <<>>
            /\ req[i].file_content.tags = <<Tag(<<"s","e","a","f","o","o","d">>, 82), Tag(<<"p","l","a","t","e">>, 95)>> =>
                  /\ loc[i].vision_results.food_tags = <<Tag(<<"s","e","a","f","o","o","d">>, 82)>>
                  /\ loc[i].vision_results.dish_name = <<"s","e","a","f","o","o","d">>

\* The tags of the claim were reduced, with neither caption nor text in the image.
C11_Witness ==
    \E i \in Invocations :
        /\ VisionDone(i)
        /\ req[i].file_content.tags = <<Tag(<<"p","i","z","z","a">>, 82), Tag(<<"p","l","a","t","e">>, 95)>>
        /\ ~req[i].file_content.caption.present /\ req[i].file_content.blocks = <<>>
        /\ loc[i].vision_results.dish_name = <<>>

\* No food tag of the image has a confidence above 0.7
NoQualifyingTag(result) ==
    \A k \in DOMAIN result.tags : ~(IsFoodTag(result.tags[k]) /\ result.tags[k].confidence > DishConfidence)

\* C12 as stated: the caption 'a photo of a bowl of food', with no food tag above
\* 0.7, gives the dish name 'bowl of'.
C12_BowlOf ==
    \A i \in Invocations :
        (/\ VisionDone(i)
         /\ req[i].file_content.caption = Caption(<<"a"," ","p","h","o","t","o"," ","o","f"," ","a"," ","b","o","w","l"," ","o","f"," ","f","o","o","d">>, 80)
         /\ NoQualifyingTag(req[i].file_content))
            => loc[i].vision_results.dish_name = <<"b","o","w","l"," ","o","f">>

\* C12 (amended): only the lead-in 'a photo of' is removed and the rest is
\* trimmed, so that caption gives the dish name 'a bowl of food'.
C12_BowlOfFood ==
    \A i \in Invocations :
        (/\ VisionDone(i)
         /\ req[i].file_content.caption = Caption(<<"a"," ","p","h","o","t","o"," ","o","f"," ","a"," ","b","o","w","l"," ","o","f"," ","f","o","o","d">>, 80)
         /\ NoQualifyingTag(req[i].file_content))
            => loc[i].vision_results.dish_name = <<"a"," ","b","o","w","l"," ","o","f"," ","f","o","o","d">>

\* That caption was reduced for an image with a food tag at 0.7 and with text.
C12_Witness ==
    \E i \in Invocations :
        /\ VisionDone(i)
        /\ req[i].file_content.caption = Caption(<<"a"," ","p","h","o","t","o"," ","o","f"," ","a"," ","b","o","w","l"," ","o","f"," ","f","o","o","d">>, 80)
        /\ req[i].file_content.tags = <<Tag(<<"f","o","o","d">>, 70)>>
        /\ req[i].file_content.blocks # <<>>
        /\ loc[i].vision_results.dish_name = <<"a"," ","b","o","w","l"," ","o","f"," ","f","o","o","d">>

\* The sources of the dish name, each read from the vision result itself:
\* (a) the food tags, and the first of those with the highest confidence
FoodOf(result) == SelectSeq(result.tags, IsFoodTag)
TopFoodTag(result) ==
    LET food == FoodOf(result)
    IN  food[CHOOSE k \in DOMAIN food :
                 \A j \in DOMAIN food :
                     \/ food[j].confidence < food[k].confidence
                     \/ food[j].confidence = food[k].confidence /\ k <= j]
TagApplies(result) ==
    FoodOf(result) # <<>> /\ TopFoodTag(result).confidence > DishConfidence

\* (b) a caption that mentions food
CaptionApplies(result) ==
    result.caption.present /\ Contains(Lower(result.caption.text), <<"f","o","o","d">>)

\* (c) the lines of the text blocks in source order, trimmed, and the first title
OcrLines(result) == [k \in DOMAIN Flatten(result.blocks) |-> Strip(Flatten(result.blocks)[k])]
OcrTitles(result) == {k \in DOMAIN OcrLines(result) : IsTitleLine(OcrLines(result)[k])}
FirstOcrTitle(result) ==
    OcrLines(result)[CHOOSE k \in OcrTitles(result) : \A j \in OcrTitles(result) : k <= j]

\* C13: the dish name is (a) the top food tag's name when its confidence is above
\* 0.7, otherwise (b) the caption without its lead-ins when it mentions food,
\* otherwise (c) the first title line of the text, otherwise (d) empty; a source is
\* never used when one before it applies.
C13_StrictPriority ==
    \A i \in Invocations :
        VisionDone(i) =>
            LET result == req[i].file_content
            IN  loc[i].vision_results.dish_name =
                    IF TagApplies(result) THEN TopFoodTag(result).name
                    ELSE IF CaptionApplies(result) THEN CaptionSubject(result.caption.text)
                    ELSE IF OcrTitles(result) # {} THEN FirstOcrTitle(result)
                    ELSE <<>>

\* The caption named the dish of an image whose text has a title line and whose
\* food tag does not reach 0.7.
C13_Witness ==
    \E i \in Invocations :
        /\ VisionDone(i)
        /\ FoodOf(req[i].file_content) # <<>> /\ ~TagApplies(req[i].file_content)
        /\ CaptionApplies(req[i].file_content)
        /\ OcrTitles(req[i].file_content) # {}
        /\ loc[i].vision_results.dish_name = CaptionSubject(req[i].file_content.caption.text)
        /\ loc[i].vision_results.dish_name # FirstOcrTitle(req[i].file_content)

\* The tags of a list that have confidence c, in the order of the list
WithConfidence(tags, c) == SelectSeq(tags, LAMBDA t : t.confidence = c)

\* The food keywords, and the tags of a list whose lower-cased name holds one
FoodKeywords ==
    {<<"f","o","o","d">>, <<"c","u","i","s","i","n","e">>, <<"d","i","s","h">>, <<"m","e","a","l">>, <<"i","n","g","r","e","d","i","e","n","t">>, <<"d","e","s","s","e","r","t">>, <<"f","r","u","i","t">>, <<"v","e","g","e","t","a","b","l","e">>, <<"m","e","a","t">>}
NamedAsFood(tags) ==
    SelectSeq(tags, LAMBDA t : \E w \in FoodKeywords : Contains(Lower(t.name), w))

\* C14: food_tags holds exactly the tags whose lower-cased name contains a food
\* keyword, by confidence descending, equal confidences in their input order.
C14_FoodTagsFilteredSorted ==
    \A i \in Invocations :
        VisionDone(i) =>
            LET food == NamedAsFood(req[i].file_content.tags)
                out == loc[i].vision_results.food_tags
            IN  /\ Len(out) = Len(food)
                /\ \A k \in 1..(Len(out) - 1) : out[k].confidence >= out[k + 1].confidence
                /\ \A c \in {food[k].confidence : k \in DOMAIN food}
                          \cup {out[k].confidence : k \in DOMAIN out} :
                      WithConfidence(out, c) = WithConfidence(food, c)

\* Three tags were reduced: one outside the food domain was dropped, and two food
\* tags of equal confidence, listed after a lower one, kept their order.
C14_Witness ==
    \E i \in Invocations :
        /\ VisionDone(i)
        /\ req[i].file_content.tags = <<Tag(<<"d","e","s","s","e","r","t">>, 70), Tag(<<"S","e","a","F","o","o","d">>, 82), Tag(<<"d","e","s","s","e","r","t">>, 82)>>
        /\ loc[i].vision_results.food_tags = <<Tag(<<"S","e","a","F","o","o","d">>, 82), Tag(<<"d","e","s","s","e","r","t">>, 82), Tag(<<"d","e","s","s","e","r","t">>, 70)>>

(***************************************************************************)
(* Claims about the failures of the menu-analysis endpoint *)
(***************************************************************************)

\* analyze_menu_image of invocation i caught a failure
VisionFailed(i) ==
    /\ "vision" \in Range(loc[i].steps)
    /\ "error" \in DOMAIN loc[i].vision_results

\* C15: a failure of the vision call, or of the reduction of its result, is
\* returned as {'error': message}; the request goes on to the advice and to the
\* save and, once answered, has status 200 and the dish name 'Unknown dish'.
C15_VisionFailureDegrades ==
    \A i \in Invocations :
        VisionFailed(i) =>
            /\ DOMAIN loc[i].vision_results = {"error"}
            /\ pc[i] \in {"advice", "save", "done"}
            /\ pc[i] \in {"save", "done"} =>
                  Get(loc[i].openai_results, "dish_analyzed", None) = Str(<<"U","n","k","n","o","w","n"," ","d","i","s","h">>)
            /\ pc[i] = "done" =>
                  /\ loc[i].steps = <<"upload", "sas", "vision", "advice">>
                  /\ Cardinality(OpsOf(i)) = 1
                  /\ resp[i].status = 200
                  /\ resp[i].body.dish_name = <<"U","n","k","n","o","w","n"," ","d","i","s","h">>
                  /\ resp[i].body.analysis = loc[i].openai_results

\* The reduction raised on an object without tags, and the request was answered
\* after its record was stored.
C15_Witness ==
    \E i \in Invocations :
        /\ VisionFailed(i)
        /\ req[i].file_content = BareObjectImage
        /\ pc[i] = "done"
        /\ resp[i].status = 200
        /\ \E k \in RecordsOf(i) : store[k].dish_name = <<"U","n","k","n","o","w","n"," ","d","i","s","h">>

----------------------------------------------------------------------------
(* The normalizer over many texts: one receipt invocation, the display name  *)
(* of its form drawn from every short text of an alphabet                    *)

\* The longest display name
MaxText == 3

\* A lower and an upper ASCII letter, a space, a punctuation mark, and two
\* letters outside ASCII (E acute, I with dot above)
TextAlphabet == {"a", "A", " ", ".", "U+00C9", "U+0130"}

RECURSIVE Texts(_)
Texts(n) ==
    IF n = 0 THEN {<<>>}
    ELSE Texts(n - 1) \cup {Append(t, c) : t \in {x \in Texts(n - 1) : Len(x) = n - 1}, c \in TextAlphabet}

InitText ==
    InitWith({[i \in Invocations |->
                  IF i = 1 THEN FileRequest(<<"a",".","j","p","g">>, Result(<<ReceiptDoc>>), [displayName |-> t])
                  ELSE [files |-> "none", file_name |-> <<>>, file_content |-> NoDocsResult,
                        form |-> EmptyDict]] : t \in Texts(MaxText)},
             {GoodEnv}, {{}})

SpecText == InitText /\ [][Next]_vars

(***************************************************************************)
(* Claims about the normalizer, convert_to_snake_case *)
(***************************************************************************)

\* The characters of a slug, and the characters outside ASCII
SlugChars == Range(LowerLetters) \cup Range(Digits) \cup {"_"}
NonAscii == UnicodeAlnum \cup UnicodeSpace \cup {"U+0307"}

\* C16: normalizing a normalized name again changes nothing; stated of the
\* normalized username of every stored record.
C16_Idempotent ==
    \A k \in DOMAIN store :
        convert_to_snake_case(Username(store[k].user_info)) = Username(store[k].user_info)

\* C17 as stated: a normalized name holds only a-z, 0-9 and the underscore,
\* whatever the text, letters outside ASCII included.
C17_SlugCharsOnly ==
    \A k \in DOMAIN store : Range(Username(store[k].user_info)) \subseteq SlugChars

\* C17 (amended): the normalized name of an ASCII text holds only a-z, 0-9 and
\* the underscore; a letter outside ASCII is kept, lower-cased, so the name
\* holds nothing but slug characters and characters outside ASCII.
C17_AsciiSlug ==
    \A k \in DOMAIN store :
        LET x == KeyUsername(store[k].user_info)
            u == Username(store[k].user_info)
        IN  /\ Range(x) \cap NonAscii = {} => Range(u) \subseteq SlugChars
            /\ Range(u) \subseteq SlugChars \cup NonAscii
            /\ \A c \in Range(x) \cap UnicodeAlnum : Range(LowerChar(c)) \subseteq Range(u)

\* A record was stored for a display name with an upper-case letter outside
\* ASCII, a punctuation mark and an ASCII capital.
C17_Witness ==
    \E k \in DOMAIN store :
        /\ store[k].user_info = [displayName |-> <<"U+00C9", ".", "A">>]
        /\ Username(store[k].user_info) = <<"U+00E9", "_", "a">>

\* ---------------------------------------------------------------------------
\* Field extraction over every value type: one receipt invocation whose file
\* holds a document with one field of every kind next to a plain one.

PyInt(s) == [t |-> "int", v |-> s]

\* A payload of each dispatched value type
Payload ==
    [string |-> Str(<<"a","b">>), number |-> Float(<<"1",".","5">>), integer |-> PyInt(<<"3">>),
     date |-> Date(2024, 1, 2), time |-> Time(9, 5, 0), phoneNumber |-> Str(<<"+","1"," ","5","5","5">>),
     selectionMark |-> Str(<<"s","e","l","e","c","t","e","d">>), countryRegion |-> Str(<<"U","S","A">>)]

\* A DocumentField of the analysis SDK: the payload sits under the snake-case
\* attribute of its type, and is None when the service sent none.
SdkField(value_type, payload) ==
    Put([value_type |-> value_type, confidence |-> Conf, content |-> Str(<<"r","a","w">>)],
        TypedAttr[value_type], payload)

ArrayField(value_array) ==
    [value_type |-> "array", confidence |-> Conf, content |-> Str(<<"r","o","w","s">>), value_array |-> value_array]

ObjectRow(value_object) == [value_type |-> "object", value_object |-> value_object]

MaxRows == 2

\* The elements an array field can hold: object rows of one or two cells, and
\* an element that is not an object.
RowOptions ==
    {ObjectRow([Cell |-> SdkField(vt, Payload[vt])]) : vt \in DOMAIN TypedAttr}
      \cup {ObjectRow([Name |-> SdkField("string", Payload["string"]),
                       Price |-> CurrencyField(<<"$","2">>)]),
            ObjectRow([Cell |-> [content |-> Str(<<"r","a","w">>)]]),
            SdkField("string", Payload["string"])}

RECURSIVE RowLists(_)
RowLists(n) ==
    IF n = 0 THEN {<<>>}
    ELSE LET shorter == RowLists(n - 1)
         IN  shorter \cup {Append(rows, r) : rows \in shorter, r \in RowOptions}

\* Every kind of field the extraction can meet
FieldKinds ==
    {SdkField(vt, Payload[vt]) : vt \in DOMAIN TypedAttr}
      \cup {SdkField(vt, None) : vt \in DOMAIN TypedAttr}
      \cup {BareField(vt, <<"r","a","w">>) : vt \in DOMAIN TypedAttr \cup {"array", "object"}}
      \cup {CurrencyField(<<"$","2">>), [confidence |-> Conf, content |-> Str(<<"r","a","w">>)],
            [value_type |-> "string", confidence |-> Conf, value_string |-> Str(<<"a","b">>)]}
      \cup {ArrayField(List(rows)) : rows \in RowLists(MaxRows)}
      \cup {ArrayField(None)}

FieldResults ==
    {Result(<<Document("receipt", [MerchantName |-> StringField(<<"A","c","m","e">>), Field |-> f])>>) :
        f \in FieldKinds}
      \cup {Result(<<Document("receipt", [Field |-> f]), ReceiptDoc>>) :
               f \in {ArrayField(None), SdkField("date", None), BareField("time", <<"r","a","w">>)}}

InitFields ==
    InitWith({[i \in Invocations |->
                  IF i = 1 THEN FileRequest(<<"a",".","j","p","g">>, c, [displayName |-> <<"J","a","n","e"," ","D","o","e">>])
                  ELSE [files |-> "none", file_name |-> <<>>, file_content |-> NoDocsResult,
                        form |-> EmptyDict]] : c \in FieldResults},
             {GoodEnv}, {{}})

SpecFields == InitFields /\ [][Next]_vars

\* ---------------------------------------------------------------------------
\* Claims about field extraction

\* The analysis of invocation i returned a result that holds documents.
AnalysisReturned(i) ==
    /\ loc[i].analyzed = req[i].file_content
    /\ hasattr(loc[i].analyzed, "documents")
    /\ loc[i].analyzed.documents # <<>>

Unrecognized(field) ==
    \/ ~hasattr(field, "value_type")
    \/ field.value_type \notin DOMAIN TypedAttr \cup {"array"}

PayloadMissing(field) ==
    /\ hasattr(field, "value_type")
    /\ \/ /\ field.value_type \in DOMAIN TypedAttr
          /\ \/ ~hasattr(field, TypedAttr[field.value_type])
             \/ field[TypedAttr[field.value_type]] = None
       \/ /\ field.value_type = "array"
          /\ \/ ~hasattr(field, "value_array")
             \/ field.value_array = None

ValueAbsent(field_dict) ==
    ~hasattr(field_dict, "value") \/ field_dict.value = None

\* C18: once the analysis has returned documents, nothing is raised and every
\* document is extracted; every named field of a document has exactly one entry
\* under its name; the entry keeps the field's content when the source has it;
\* and the entry has no value when the field's type is unrecognized or the
\* payload of its declared type is missing.
C18_ExtractionTotalLossless ==
    \A i \in Invocations :
        AnalysisReturned(i) =>
            /\ "analyze" \in Range(loc[i].steps)
            /\ Len(loc[i].raw_documents.docs) = Len(loc[i].analyzed.documents)
            /\ \A k \in DOMAIN loc[i].analyzed.documents :
                   LET doc == loc[i].analyzed.documents[k]
                       out == loc[i].raw_documents.docs[k]
                   IN  hasattr(doc, "fields") =>
                           /\ hasattr(out, "fields")
                           /\ DOMAIN out.fields = DOMAIN doc.fields
                           /\ \A n \in DOMAIN doc.fields :
                                  /\ hasattr(doc.fields[n], "content") =>
                                         /\ hasattr(out.fields[n], "content")
                                         /\ out.fields[n].content = doc.fields[n].content
                                  /\ (Unrecognized(doc.fields[n]) \/ PayloadMissing(doc.fields[n])) =>
                                         ValueAbsent(out.fields[n])

\* The object-typed elements of an array payload, in source order
ObjectRows(value_array) == SelectSeq(value_array, LAMBDA item : IsObjectItem(item))

\* An inner cell carries the value that the top-level dispatch gives the same field.
SameAsTopLevel(inner, cell) ==
    LET top == ExtractField(inner)
    IN  /\ hasattr(cell, "value") <=> hasattr(top, "value")
        /\ hasattr(top, "value") => cell.value = top.value

\* C19: an array field's object elements become one row each, in source order,
\* mapping every inner field name to its content and value; for an inner field
\* of type string, number, integer, date, time, phoneNumber, selectionMark or
\* countryRegion the value is the one the top-level dispatch decodes from the
\* same field.
C19_RowsDecodedAsTopLevel ==
    \A i \in Invocations :
        "analyze" \in Range(loc[i].steps) =>
            \A k \in DOMAIN loc[i].raw_documents.docs :
                LET doc == loc[i].analyzed.documents[k]
                    out == loc[i].raw_documents.docs[k]
                IN  hasattr(doc, "fields") =>
                        \A n \in DOMAIN doc.fields :
                            (/\ hasattr(doc.fields[n], "value_type")
                             /\ doc.fields[n].value_type = "array"
                             /\ hasattr(doc.fields[n], "value_array")) =>
                                LET rows == ObjectRows(doc.fields[n].value_array.v)
                                    items == out.fields[n].items
                                IN  /\ Len(items) = Len(rows)
                                    /\ \A j \in DOMAIN rows :
                                           /\ DOMAIN items[j] = DOMAIN rows[j].value_object
                                           /\ \A c \in DOMAIN rows[j].value_object :
                                                  LET inner == rows[j].value_object[c]
                                                  IN  /\ hasattr(inner, "content") =>
                                                             items[j][c].content = inner.content
                                                      /\ (/\ hasattr(inner, "value_type")
                                                          /\ inner.value_type \in DOMAIN TypedAttr) =>
                                                             SameAsTopLevel(inner, items[j][c])

\* ---------------------------------------------------------------------------
\* Both handlers under one set of settings: invocation 1 is a request to the
\* receipt endpoint, invocation 2 a request to the menu endpoint.

NextHandlers ==
    \/ Receive(1)
    \/ CheckContainer(1)
    \/ Upload(1)
    \/ GenerateSas(1)
    \/ Analyze(1)
    \/ Save(1)
    \/ MenuReceive(2)
    \/ MenuCheckContainer(2)
    \/ MenuUpload(2)
    \/ MenuGenerateSas(2)
    \/ Vision(2)
    \/ Advice(2)
    \/ MenuSave(2)
    \/ Tick

\* The settings of both function apps
AllEnv == [n \in DOMAIN GoodEnv \cup DOMAIN GoodMenuEnv |-> IF n \in DOMAIN GoodEnv THEN GoodEnv[n] ELSE GoodMenuEnv[n]]

Without(d, names) == [n \in DOMAIN d \ names |-> d[n]]

\* Connection strings that lack the account key, or the account name
SasOnlyConnection == <<"A","c","c","o","u","n","t","N","a","m","e","=","a","c","c","t",";","S","h","a","r","e","d","A","c","c","e","s","s","S","i","g","n","a","t","u","r","e","=","s","i","g">>
NamelessConnection == <<"A","c","c","o","u","n","t","K","e","y","=","k","2","=">>

HandlerEnvironments ==
    {AllEnv,
     [AllEnv EXCEPT !["DOCUMENT_INTELLIGENCE_KEY"] = <<>>,
                    !["BLOB_STORAGE_CONNECTION_STRING"] = SasOnlyConnection],
     [Without(AllEnv, {"DOCUMENT_INTELLIGENCE_ENDPOINT", "VISION_ENDPOINT"}) EXCEPT !["OPENAI_KEY"] = <<>>],
     Without(AllEnv, {"BLOB_STORAGE_CONNECTION_STRING"}),
     [AllEnv EXCEPT !["BLOB_STORAGE_CONNECTION_STRING"] = SasOnlyConnection],
     [AllEnv EXCEPT !["BLOB_STORAGE_CONNECTION_STRING"] = NamelessConnection]}

HandlerRequests ==
    {[i \in Invocations |-> IF i = 1 THEN r1 ELSE r2] :
        r1 \in NoFileRequests \cup {FileRequest(<<"a",".","j","p","g">>, Result(<<ReceiptDoc>>), [displayName |-> <<"J","a","n","e"," ","D","o","e">>])},
        r2 \in NoFileRequests \cup {FileRequest(<<"b",".","p","n","g">>, PizzaImage, [displayName |-> <<"J","a","n","e"," ","D","o","e">>])}}

InitHandlers == InitWith(HandlerRequests, HandlerEnvironments, {{}})

SpecHandlers == InitHandlers /\ [][NextHandlers]_vars

\* ---------------------------------------------------------------------------
\* Claims about the request and configuration checks of both handlers

\* The settings each handler requires before it starts
RequiredSettings(i) ==
    IF i = 1
    THEN {"DOCUMENT_INTELLIGENCE_ENDPOINT", "DOCUMENT_INTELLIGENCE_KEY", "BLOB_STORAGE_CONNECTION_STRING"}
    ELSE {"VISION_ENDPOINT", "VISION_KEY", "OPENAI_ENDPOINT", "OPENAI_KEY", "BLOB_STORAGE_CONNECTION_STRING"}

Unset(n) == n \notin DOMAIN env \/ env[n] = <<>>

ConfigMissing(i) == \E n \in RequiredSettings(i) : Unset(n)

\* The blob connection string is set but yields no account name or no account key.
MalformedConnection ==
    /\ ~Unset("BLOB_STORAGE_CONNECTION_STRING")
    /\ \/ AccountName(env["BLOB_STORAGE_CONNECTION_STRING"]) = <<>>
       \/ AccountKey(env["BLOB_STORAGE_CONNECTION_STRING"]) = <<>>

----------------------------------------------------------------------------
(* help-bot: the handler that relays a message to the bot over Direct Line *)

\* A response whose body is plain text (no mimetype, not JSON)
TextResponse(status, text) == [status |-> status, body |-> [t |-> "text", v |-> text]]

NoWatermark == 0 - 1

MaxActivities == 5

ConversationIds == {"c1", "c2", "c3"}

\* An activity of a conversation as the service returns it; `id` is its position
\* in the conversation and `replyToId` the activity a bot reply answers.
Activity(id, from, text, replyToId) == [id |-> id, from |-> from, text |-> text, replyToId |-> replyToId]

\* What the bot answers to a text
ReplyText(text) == <<"r", "e", ":">> \o text

BotLocals ==
    [conversation_id |-> "", watermark |-> NoWatermark, sent |-> 0,
     bot_responses |-> <<>>, collected |-> <<>>, steps |-> <<>>]

\* main, `except Exception`: the text of the failure is the body
BotFailure(text) == TextResponse(500, <<"Error communicating with bot: ", text>>)

\* main up to the call of send_to_bot: the body, the message and the secret
BotReceive(i) ==
    /\ pc[i] = "start"
    /\ IF ~req[i].json
       THEN Finish(i, TextResponse(400, <<"Please pass a valid JSON in the request body with 'message' field">>))
            /\ UNCHANGED loc
       ELSE IF ~req[i].object
       THEN \* req_body.get raises AttributeError, which main does not catch
            /\ pc' = [pc EXCEPT ![i] = "raised"]
            /\ UNCHANGED <<resp, loc>>
       ELSE IF Get(req[i].body, "message", <<>>) = <<>>
       THEN Finish(i, TextResponse(400, <<"Please provide a message in the request body">>))
            /\ UNCHANGED loc
       ELSE IF Getenv("DIRECT_LINE_SECRET") = <<>>
       THEN Finish(i, TextResponse(500, <<"DIRECT_LINE_SECRET environment variable is not configured">>))
            /\ UNCHANGED loc
       ELSE /\ loc' = [loc EXCEPT ![i].conversation_id = Get(req[i].body, "conversation_id", ""),
                                  ![i].watermark = Get(req[i].body, "watermark", NoWatermark)]
            /\ pc' = [pc EXCEPT ![i] =
                         IF Get(req[i].body, "conversation_id", "") = "" THEN "conversation" ELSE "send"]
            /\ UNCHANGED resp
    /\ UNCHANGED <<now, env, blobs, containers, store, ops, conversations, req>>

\* send_to_bot, "Start or continue conversation": POST /conversations
StartConversation(i) ==
    /\ pc[i] = "conversation"
    /\ \/ \E c \in ConversationIds \ DOMAIN conversations :
            /\ conversations' = Put(conversations, c, <<>>)
            /\ loc' = [loc EXCEPT ![i].conversation_id = c, ![i].watermark = NoWatermark,
                                  ![i].steps = Append(@, "conversation")]
            /\ pc' = [pc EXCEPT ![i] = "send"]
            /\ UNCHANGED resp
       \/ /\ Finish(i, BotFailure("Failed to create conversation"))
          /\ UNCHANGED <<conversations, loc>>
    /\ UNCHANGED <<now, env, blobs, containers, store, ops, req>>

\* send_to_bot, "Send message": POST /conversations/{id}/activities
SendMessage(i) ==
    /\ pc[i] = "send"
    /\ \/ /\ loc[i].conversation_id \in DOMAIN conversations
          /\ LET activities == conversations[loc[i].conversation_id]
             IN  /\ conversations' =
                        [conversations EXCEPT ![loc[i].conversation_id] =
                            Append(activities, Activity(Len(activities) + 1, "user1", req[i].body.message, 0))]
                 /\ loc' = [loc EXCEPT ![i].sent = Len(activities) + 1,
                                       ![i].steps = Append(@, "send")]
          /\ pc' = [pc EXCEPT ![i] = "get"]
          /\ UNCHANGED resp
       \/ /\ Finish(i, BotFailure("Failed to send message"))
          /\ UNCHANGED <<conversations, loc>>
    /\ UNCHANGED <<now, env, blobs, containers, store, ops, req>>

\* The bot answers a message of the conversation that it has not answered yet.
BotReply ==
    /\ \E c \in DOMAIN conversations :
          \E k \in DOMAIN conversations[c] :
              /\ Len(conversations[c]) < MaxActivities
              /\ conversations[c][k].from = "user1"
              /\ \A j \in DOMAIN conversations[c] : conversations[c][j].replyToId # k
              /\ conversations' =
                     [conversations EXCEPT ![c] =
                         Append(@, Activity(Len(@) + 1, "bot", ReplyText(conversations[c][k].text), k))]
    /\ UNCHANGED <<now, env, blobs, containers, store, ops, req, pc, loc, resp>>

\* GET /conversations/{id}/activities: the activities after the watermark, or all of them
ActivitiesAfter(activities, watermark) ==
    IF watermark = NoWatermark THEN activities
    ELSE SubSeq(activities, watermark + 1, Len(activities))

\* send_to_bot, "Filter for bot responses that came after our message": the
\* activities collected, given whether the user message was found before them
RECURSIVE Collect(_, _, _)
Collect(activities, message, user_message_found) ==
    IF activities = <<>> THEN <<>>
    ELSE LET activity == Head(activities)
         IN  IF activity.from = "user1" /\ Get(activity, "text", <<>>) = message
             THEN Collect(Tail(activities), message, TRUE)
             ELSE IF user_message_found /\ activity.from # "user1"
             THEN <<activity>> \o Collect(Tail(activities), message, user_message_found)
             ELSE Collect(Tail(activities), message, user_message_found)

\* send_to_bot, "Get response" to the return, and main's 200
GetActivities(i) ==
    /\ pc[i] = "get"
    /\ \/ LET activities == ActivitiesAfter(conversations[loc[i].conversation_id], loc[i].watermark)
              found == Collect(activities, req[i].body.message, FALSE)
              bot_responses == [k \in DOMAIN found |-> Get(found[k], "text", <<>>)]
              new_watermark == Len(conversations[loc[i].conversation_id])
          IN  /\ loc' = [loc EXCEPT ![i].bot_responses = bot_responses,
                                    ![i].collected = [k \in DOMAIN found |-> found[k].id],
                                    ![i].steps = Append(@, "get")]
              /\ Finish(i, [status |-> 200,
                            body |-> [responses |-> bot_responses,
                                      conversation_id |-> loc[i].conversation_id,
                                      watermark |-> new_watermark]])
       \/ /\ Finish(i, BotFailure("Failed to get activities"))
          /\ UNCHANGED loc
    /\ UNCHANGED <<now, env, blobs, containers, store, ops, conversations, req>>

NextBot ==
    \/ \E i \in Invocations :
          \/ BotReceive(i)
          \/ StartConversation(i)
          \/ SendMessage(i)
          \/ GetActivities(i)
    \/ BotReply

\* The requests to the help-bot endpoint: the body as JSON decodes it
BotRequest(body) == [json |-> TRUE, object |-> TRUE, body |-> body]
BadBotRequests ==
    {[json |-> FALSE, object |-> FALSE, body |-> EmptyDict],
     [json |-> TRUE, object |-> FALSE, body |-> EmptyDict],
     BotRequest(EmptyDict),
     BotRequest([message |-> <<>>, conversation_id |-> "c1"])}

BotFirstRequests ==
    BadBotRequests \cup
    {BotRequest([message |-> <<"h","i">>]),
     BotRequest([message |-> <<"h","i">>, conversation_id |-> "c1"]),
     BotRequest([message |-> <<"h","i">>, conversation_id |-> "c1", watermark |-> 2]),
     BotRequest([message |-> <<"y","o">>, conversation_id |-> "c1", watermark |-> 0]),
     BotRequest([message |-> <<"h","i">>, conversation_id |-> "zz"])}

BotSecondRequests ==
    {BotRequest(EmptyDict),
     BotRequest([message |-> <<"y","o">>, conversation_id |-> "c1"]),
     BotRequest([message |-> <<"h","i">>])}

\* The conversations the service holds when the requests arrive
Histories ==
    {EmptyDict,
     [c \in {"c1"} |-> <<>>],
     [c \in {"c1"} |-> <<Activity(1, "user1", <<"h","i">>, 0)>>],
     [c \in {"c1"} |-> <<Activity(1, "user1", <<"h","i">>, 0), Activity(2, "bot", ReplyText(<<"h","i">>), 1)>>],
     [c \in {"c1"} |-> <<Activity(1, "user1", <<"y","o">>, 0), Activity(2, "bot", ReplyText(<<"y","o">>), 1)>>]}

BotEnvironments == {[DIRECT_LINE_SECRET |-> <<"s","3">>], EmptyDict}

InitBot ==
    /\ now = StartTime
    /\ env \in BotEnvironments
    /\ blobs = EmptyDict
    /\ containers = {}
    /\ store = <<>>
    /\ ops = <<>>
    /\ conversations \in Histories
    /\ req \in {[i \in Invocations |-> IF i = 1 THEN r1 ELSE r2] :
                   r1 \in BotFirstRequests, r2 \in BotSecondRequests}
    /\ pc = [i \in Invocations |-> "start"]
    /\ loc = [i \in Invocations |-> BotLocals]
    /\ resp = [i \in Invocations |-> NoResponse]

SpecBot == InitBot /\ [][NextBot]_vars

\* ---------------------------------------------------------------------------
\* Claims about failure responses and about the bot's replies

\* The body is a JSON object with an 'error' string field.
IsJsonError(body) ==
    /\ "error" \in DOMAIN body
    /\ "t" \in DOMAIN body.error
    /\ body.error.t = "str"

\* C21: every response with status 400 or 500 that a handler returns has a body
\* that is a JSON object with an 'error' string field.
C21_FailureBodyIsJsonError ==
    \A i \in Invocations :
        resp[i].status \in {400, 500} => IsJsonError(resp[i].body)

\* C22: when the first source of a promoted scalar is present by name in the
\* first document's fields but has no 'value' entry, the stored record has no
\* key for that scalar, whatever the second source holds.
C22_NoFallbackPastPresentSource ==
    \A i \in Invocations : \A k \in RecordsOf(i) : \A p \in Promotions :
        LET fields == FirstFields(loc[i].raw_documents)
        IN  (p[2] \in DOMAIN fields /\ "value" \notin DOMAIN fields[p[2]]) =>
                p[1] \notin DOMAIN store[k]

\* A record was stored whose first document has every first source without a
\* value and every second source with one.
C22_Witness ==
    \E i \in Invocations : \E k \in RecordsOf(i) :
        LET fields == FirstFields(loc[i].raw_documents)
        IN  /\ \A p \in Promotions :
                   /\ p[2] \in DOMAIN fields /\ "value" \notin DOMAIN fields[p[2]]
                   /\ HasValue(fields, p[3])
            /\ DOMAIN store[k] \cap {"merchant", "total", "date"} = {}

\* C23: the replies send_to_bot returns all come after the message just sent:
\* every collected activity is not from 'user1' and follows, in the
\* conversation, the activity of the current message.
C23_RepliesFollowCurrentMessage ==
    \A i \in Invocations :
        (pc[i] = "done" /\ resp[i].status = 200) =>
            \A k \in DOMAIN loc[i].collected :
                LET activity == conversations[loc[i].conversation_id][loc[i].collected[k]]
                IN  /\ activity.from # "user1"
                    /\ activity.id > loc[i].sent

====
